---- MODULE Spec2Model ----
(***************************************************************************)
(* WisprMCP: the data access layer (core/parser.py), the record model     *)
(* (core/transcript.py), the id lookup of the CLI (cli/commands/show.py)   *)
(* and the JSON-RPC server (mcp/server.py, mcp/tools.py).                  *)
(*                                                                         *)
(* Conventions.                                                            *)
(*  - A Python Optional / SQL nullable value is a sequence of length 0     *)
(*    (None / NULL) or 1 (the value).                                      *)
(*  - A text is a sequence of one-character strings.                       *)
(*  - A timestamp TEXT, as the store holds it and as datetime.isoformat()  *)
(*    prints it, is a sequence of character codes: one code for the        *)
(*    zero-padded date, the separator, one code for the zero-padded time.  *)
(*    Fixed-width zero-padded digits compare as their numbers do, so one   *)
(*    digit per field keeps the order of the real strings.                 *)
(*  - A datetime is <<day, hour, tz>>: tz = 0 for a naive datetime, 1 for  *)
(*    one that carries the UTC offset.                                     *)
(***************************************************************************)
EXTENDS Integers, Sequences, FiniteSets, TLC

VARIABLES
    store,      \* rows of the History table, in rowid order (read-only)
    dbExists,   \* the store file exists at the configured path
    pc,         \* position of the process: see the specifications below
    line,       \* the line the server's loop holds after readline
    nread,      \* number of readline calls that returned a line
    out,        \* everything printed to stdout, in order, each with the
                \* number and the text of the line it was printed for
    qcall,      \* the data-access / CLI call under examination
    qret        \* what that call returned

vars == <<store, dbExists, pc, line, nread, out, qcall, qret>>

(***************************************************************************)
(* Bounds of the model.                                                    *)
(***************************************************************************)
MaxRows == 2
MaxLines == 2

(***************************************************************************)
(* Optional values.                                                        *)
(***************************************************************************)
None == <<>>
Some(x) == <<x>>
IsNone(o) == o = <<>>
Val(o) == o[1]

\* Python truthiness of an Optional[str] held as a text: None and "" are falsy.
TruthyText(o) == ~IsNone(o) /\ Val(o) # <<>>
\* Python truthiness of an Optional[str] held as an atom: None and "" are falsy.
TruthyStr(o) == ~IsNone(o) /\ Val(o) # ""
\* Python truthiness of an Optional[int]: None and 0 are falsy.
TruthyInt(o) == ~IsNone(o) /\ Val(o) # 0

Min(a, b) == IF a <= b THEN a ELSE b

(***************************************************************************)
(* Texts: str.lower, substring test, str.startswith.                       *)
(***************************************************************************)
UpperLetters ==
    <<"A", "B", "C", "D", "E", "F", "G", "H", "I", "J", "K", "L", "M",
      "N", "O", "P", "Q", "R", "S", "T", "U", "V", "W", "X", "Y", "Z">>
LowerLetters ==
    <<"a", "b", "c", "d", "e", "f", "g", "h", "i", "j", "k", "l", "m",
      "n", "o", "p", "q", "r", "s", "t", "u", "v", "w", "x", "y", "z">>

LowerChar(c) ==
    IF \E i \in 1..26 : UpperLetters[i] = c
    THEN LowerLetters[CHOOSE i \in 1..26 : UpperLetters[i] = c]
    ELSE c

Lower(t) == [i \in 1..Len(t) |-> LowerChar(t[i])]

\* Python `q in t`
Contains(t, q) ==
    \E i \in 0..(Len(t) - Len(q)) : \A j \in 1..Len(q) : t[i + j] = q[j]

\* Python t.startswith(p)
StartsWith(t, p) ==
    /\ Len(p) <= Len(t)
    /\ \A j \in 1..Len(p) : t[j] = p[j]

(***************************************************************************)
(* Timestamp texts and datetimes.                                          *)
(***************************************************************************)
CodeZero == 48     \* ord("0")
CodeSpace == 32    \* ord(" "), the store's separator between date and time
CodeT == 84        \* ord("T"), the separator datetime.isoformat() prints
CodePlus == 43     \* ord("+"), standing for the offset suffix "+00:00"

Digit(n) == CodeZero + n
IsDigit(c) == c >= CodeZero /\ c <= CodeZero + 9

\* The text the source application stores for an instant:
\* "YYYY-MM-DD HH:MM:SS.mmm +00:00".
StoreText(dt) ==
    <<Digit(dt[1]), CodeSpace, Digit(dt[2])>>
        \o (IF dt[3] = 1 THEN <<CodePlus>> ELSE <<>>)

\* datetime.isoformat(): "YYYY-MM-DDTHH:MM:SS", with "+00:00" when aware.
IsoFormat(dt) ==
    <<Digit(dt[1]), CodeT, Digit(dt[2])>>
        \o (IF dt[3] = 1 THEN <<CodePlus>> ELSE <<>>)

\* Comparison of two TEXT values in SQLite (BINARY collation: memcmp, then
\* the shorter one first).
RECURSIVE TextLess(_, _)
TextLess(a, b) ==
    IF b = <<>> THEN FALSE
    ELSE IF a = <<>> THEN TRUE
    ELSE IF a[1] # b[1] THEN a[1] < b[1]
    ELSE TextLess(Tail(a), Tail(b))

TextLeq(a, b) == a = b \/ TextLess(a, b)

\* Comparison of two datetimes as instants (local time taken to be UTC).
DtLeq(x, y) == x[1] < y[1] \/ (x[1] = y[1] /\ x[2] <= y[2])
DtLess(x, y) == DtLeq(x, y) /\ x # y

\* The timestamp parsing of _row_to_transcript_entry: " +00:00" loses its
\* blank, then datetime.fromisoformat takes any single character between date
\* and time and an optional offset; the two strptime patterns take the bare
\* form; text that no pattern parses becomes None.
ParseTimestamp(o) ==
    IF IsNone(o) \/ Val(o) = <<>> THEN None
    ELSE IF Len(Val(o)) \in {3, 4} /\ IsDigit(Val(o)[1]) /\ IsDigit(Val(o)[3])
            /\ (Len(Val(o)) = 4 => Val(o)[4] = CodePlus)
         THEN Some(<<Val(o)[1] - CodeZero, Val(o)[3] - CodeZero,
                     IF Len(Val(o)) = 4 THEN 1 ELSE 0>>)
         ELSE None

(***************************************************************************)
(* The additionalContext column.  A JSON value is a record: its kind, the  *)
(* <<key, value>> pairs of an object, the length and the string elements   *)
(* of an array, the content of a string, the value of a number.  Python's  *)
(* None is the value of kind "null".                                       *)
(***************************************************************************)
Jv(kind) == [kind |-> kind, pairs |-> {}, len |-> 0, elems |-> {}, text |-> "", num |-> 0]
JvNull == Jv("null")
JvObject(pairs) == [Jv("object") EXCEPT !.pairs = pairs]
JvArray(len, elems) == [Jv("array") EXCEPT !.len = len, !.elems = elems]
JvString(text) == [Jv("string") EXCEPT !.text = text]
JvNumber(n) == [Jv("number") EXCEPT !.num = n]

\* json.loads(text) on the payload texts of the model: ok is FALSE when it
\* raises JSONDecodeError.
ContextLoads(text) ==
    CASE text = "{\"user\": \"u\", \"axText\": \"t\", \"activeUrl\": \"l\", \"app\": \"x\"}" ->
           [ok |-> TRUE,
            value |-> JvObject({<<"user", "u">>, <<"axText", "t">>,
                                <<"activeUrl", "l">>, <<"app", "x">>})]
      [] text = "{\"user\": \"u\"}" ->
           [ok |-> TRUE, value |-> JvObject({<<"user", "u">>})]
      [] text = "{\"app\": \"x\"}" ->
           [ok |-> TRUE, value |-> JvObject({<<"app", "x">>})]
      [] text = "{}" -> [ok |-> TRUE, value |-> JvObject({})]
      [] text = "[]" -> [ok |-> TRUE, value |-> JvArray(0, {})]
      [] text = "[1]" -> [ok |-> TRUE, value |-> JvArray(1, {})]
      [] text = "[\"user\"]" -> [ok |-> TRUE, value |-> JvArray(1, {"user"})]
      [] text = "\"note\"" -> [ok |-> TRUE, value |-> JvString("note")]
      [] text = "\"5\"" -> [ok |-> TRUE, value |-> JvString("5")]
      [] text = "\"{\\\"user\\\": \\\"u\\\"}\"" ->
           [ok |-> TRUE, value |-> JvString("{\"user\": \"u\"}")]
      [] text = "\"\"" -> [ok |-> TRUE, value |-> JvString("")]
      [] text = "5" -> [ok |-> TRUE, value |-> JvNumber(5)]
      [] text = "0" -> [ok |-> TRUE, value |-> JvNumber(0)]
      [] text = "true" -> [ok |-> TRUE, value |-> Jv("true")]
      [] text = "null" -> [ok |-> TRUE, value |-> JvNull]
      [] OTHER -> [ok |-> FALSE, value |-> JvNull]

\* _row_to_transcript_entry: additional_context
ParseContext(o) ==
    IF ~TruthyStr(o) THEN JvNull
    ELSE IF ContextLoads(Val(o)).ok THEN ContextLoads(Val(o)).value
    ELSE JvNull

\* Python truthiness of a JSON value.
JvTruthy(v) ==
    CASE v.kind = "object" -> v.pairs # {}
      [] v.kind = "array" -> v.len > 0
      [] v.kind = "string" -> v.text # ""
      [] v.kind = "number" -> v.num # 0
      [] v.kind = "true" -> TRUE
      [] OTHER -> FALSE

(***************************************************************************)
(* Rows and entries.                                                       *)
(***************************************************************************)
RowToEntry(row) ==
    [ transcript_id  |-> row.transcriptEntityId,
      asr_text       |-> row.asrText,
      formatted_text |-> row.formattedText,
      edited_text    |-> row.editedText,
      timestamp      |-> ParseTimestamp(row.timestamp),
      app            |-> row.app,
      status         |-> row.status,
      conversation_id |-> row.conversationId,
      duration       |-> row.duration,
      num_words      |-> row.numWords,
      e2e_latency    |-> row.e2eLatency,
      confidence     |-> row.averageLogProb,
      additional_context |-> ParseContext(row.additionalContext),
      is_archived    |-> IF IsNone(row.isArchived) THEN FALSE
                         ELSE Val(row.isArchived) # 0 ]

\* display_text testing `is not None` where the code tests truthiness.
display_text_EmptyWins(e) ==
    IF ~IsNone(e.edited_text) THEN Val(e.edited_text)
    ELSE IF ~IsNone(e.formatted_text) THEN Val(e.formatted_text)
    ELSE IF ~IsNone(e.asr_text) THEN Val(e.asr_text)
    ELSE <<>>

\* TranscriptEntry.display_text
display_text(e) ==
    IF TruthyText(e.edited_text) THEN Val(e.edited_text)
    ELSE IF TruthyText(e.formatted_text) THEN Val(e.formatted_text)
    ELSE IF TruthyText(e.asr_text) THEN Val(e.asr_text)
    ELSE <<>>

\* The heuristic scores of quality_score, in tenths: 0.8, 0.1, 0.5.  A
\* confidence is held in tenths as well.
ScoreFormatted == 8
ScoreEmpty == 1
ScoreDefault == 5

\* quality_score testing the truthiness of confidence where the code tests
\* `is not None`.
quality_score_ZeroUnset(e) ==
    IF TruthyInt(e.confidence) THEN Val(e.confidence)
    ELSE IF e.status = Some("formatted") /\ TruthyInt(e.num_words)
              /\ Val(e.num_words) > 0
    THEN ScoreFormatted
    ELSE IF e.status = Some("empty") \/ display_text(e) = <<>>
    THEN ScoreEmpty
    ELSE ScoreDefault

\* TranscriptEntry.quality_score
quality_score(e) ==
    IF ~IsNone(e.confidence) THEN Val(e.confidence)
    ELSE IF e.status = Some("formatted") /\ TruthyInt(e.num_words)
              /\ Val(e.num_words) > 0
    THEN ScoreFormatted
    ELSE IF e.status = Some("empty") \/ display_text(e) = <<>>
    THEN ScoreEmpty
    ELSE ScoreDefault

\* TranscriptEntry.has_audio
has_audio(e) == e.status \notin {Some("no_audio"), Some("empty")}

(***************************************************************************)
(* WisprParser.get_entries: the SQL query and its result.                  *)
(***************************************************************************)
\* The keyword arguments of get_entries with their defaults.
DefaultFilter ==
    [ limit |-> None, offset |-> None, start_date |-> None, end_date |-> None,
      app |-> None, status |-> None, conversation_id |-> None,
      include_archived |-> FALSE ]

\* The WHERE clause without `OR isArchived IS NULL`.
RowMatches_NullArchivedHidden(row, f) ==
    /\ f.include_archived
         \/ (~IsNone(row.isArchived) /\ Val(row.isArchived) = 0)
    /\ ~IsNone(f.start_date) =>
         /\ ~IsNone(row.timestamp)
         /\ TextLeq(IsoFormat(Val(f.start_date)), Val(row.timestamp))
    /\ ~IsNone(f.end_date) =>
         /\ ~IsNone(row.timestamp)
         /\ TextLeq(Val(row.timestamp), IsoFormat(Val(f.end_date)))
    /\ TruthyStr(f.app) => (~IsNone(row.app) /\ Val(row.app) = Val(f.app))
    /\ TruthyStr(f.status) =>
         (~IsNone(row.status) /\ Val(row.status) = Val(f.status))
    /\ TruthyStr(f.conversation_id) =>
         (~IsNone(row.conversationId)
            /\ Val(row.conversationId) = Val(f.conversation_id))

\* The WHERE clause, evaluated on one row.  A comparison with NULL is not true.
RowMatches(row, f) ==
    /\ f.include_archived
         \/ IsNone(row.isArchived)
         \/ Val(row.isArchived) = 0
    /\ ~IsNone(f.start_date) =>
         /\ ~IsNone(row.timestamp)
         /\ TextLeq(IsoFormat(Val(f.start_date)), Val(row.timestamp))
    /\ ~IsNone(f.end_date) =>
         /\ ~IsNone(row.timestamp)
         /\ TextLeq(Val(row.timestamp), IsoFormat(Val(f.end_date)))
    /\ TruthyStr(f.app) => (~IsNone(row.app) /\ Val(row.app) = Val(f.app))
    /\ TruthyStr(f.status) =>
         (~IsNone(row.status) /\ Val(row.status) = Val(f.status))
    /\ TruthyStr(f.conversation_id) =>
         (~IsNone(row.conversationId)
            /\ Val(row.conversationId) = Val(f.conversation_id))

\* ORDER BY timestamp DESC: row a may not come after row b when a's text is
\* greater; NULL is smaller than every text, so it comes last.
SortsBefore(a, b) ==
    IF IsNone(a.timestamp) THEN FALSE
    ELSE IF IsNone(b.timestamp) THEN TRUE
    ELSE TextLess(Val(b.timestamp), Val(a.timestamp))

\* Every order of the matching rows that ORDER BY timestamp DESC allows
\* (SQL leaves the order of rows with equal keys open).
OrderedMatches(st, f) ==
    LET idx == {i \in 1..Len(st) : RowMatches(st[i], f)}
        n == Cardinality(idx)
    IN  {p \in [1..n -> idx] :
            /\ \A i, j \in 1..n : i # j => p[i] # p[j]
            /\ \A i, j \in 1..n : i < j => ~SortsBefore(st[p[j]], st[p[i]])}

\* LIMIT / OFFSET as get_entries appends them: LIMIT only for a truthy limit,
\* OFFSET only for a truthy offset.
Slice(p, f) ==
    LET off == IF TruthyInt(f.offset) THEN Val(f.offset) ELSE 0
        last == IF TruthyInt(f.limit) THEN Min(Len(p), off + Val(f.limit))
                ELSE Len(p)
    IN  SubSeq(p, off + 1, last)

\* "... ORDER BY timestamp DESC OFFSET ?" without LIMIT is no SQLite
\* statement: sqlite3 raises OperationalError.
QueryIsMalformed(f) == TruthyInt(f.offset) /\ ~TruthyInt(f.limit)

\* The outcomes of get_entries: an exception name, or the list of entries.
get_entries(st, f) ==
    IF QueryIsMalformed(f)
    THEN {[exc |-> "OperationalError", entries |-> <<>>]}
    ELSE {[exc |-> "",
           entries |-> [k \in 1..Len(Slice(p, f)) |-> RowToEntry(st[Slice(p, f)[k]])]]
            : p \in OrderedMatches(st, f)}

\* WisprParser.get_entry_by_id: the row with that primary key, if any.
get_entry_by_id(st, id) ==
    IF \E i \in 1..Len(st) : st[i].transcriptEntityId = id
    THEN Some(RowToEntry(st[CHOOSE i \in 1..Len(st) : st[i].transcriptEntityId = id]))
    ELSE None

(***************************************************************************)
(* WisprParser.search_text.                                                *)
(***************************************************************************)
SearchHit(e, query) ==
    \/ TruthyText(e.asr_text) /\ Contains(Lower(Val(e.asr_text)), Lower(query))
    \/ TruthyText(e.formatted_text)
         /\ Contains(Lower(Val(e.formatted_text)), Lower(query))
    \/ TruthyText(e.edited_text)
         /\ Contains(Lower(Val(e.edited_text)), Lower(query))

\* The list comprehension of search_text: the entries that hit, in order.
RECURSIVE FilterHits(_, _)
FilterHits(s, query) ==
    IF s = <<>> THEN <<>>
    ELSE IF SearchHit(Head(s), query)
         THEN <<Head(s)>> \o FilterHits(Tail(s), query)
         ELSE FilterHits(Tail(s), query)

\* get_entries raising ends search_text with that exception.
search_text(st, query, f) ==
    {[exc |-> r.exc, entries |-> FilterHits(r.entries, query)]
        : r \in get_entries(st, f)}

(***************************************************************************)
(* Id lookup: ShowCommand._find_entry / ShowCommand.run (CLI) and          *)
(* WisprTools._get_transcript (RPC tool).                                  *)
(***************************************************************************)
UuidLen == 36        \* show.py: "if len(transcript_id) < 36"
LookupLimit == 1000  \* get_entries(limit=1000) of both lookups

\* The entries of a list whose id starts with the argument, in list order.
RECURSIVE PrefixMatches(_, _)
PrefixMatches(entries, id) ==
    IF entries = <<>> THEN <<>>
    ELSE IF StartsWith(Head(entries).transcript_id, id)
         THEN <<Head(entries)>> \o PrefixMatches(Tail(entries), id)
         ELSE PrefixMatches(Tail(entries), id)

Ids(entries) == [k \in 1..Len(entries) |-> entries[k].transcript_id]

\* ShowCommand._find_entry: the entry found (or None) and what it printed.
find_entry(st, id) ==
    IF ~IsNone(get_entry_by_id(st, id))
    THEN {[entry |-> get_entry_by_id(st, id), printed |-> <<>>]}
    ELSE IF Len(id) < UuidLen
    THEN {LET matches == PrefixMatches(r.entries, id)
          IN  IF Len(matches) = 1
              THEN [entry |-> Some(matches[1]), printed |-> <<>>]
              ELSE IF Len(matches) > 1
              THEN [entry |-> None,
                    printed |-> <<[msg |-> "Multiple matches found",
                                   ids |-> Ids(SubSeq(matches, 1, Min(10, Len(matches))))]>>]
              ELSE [entry |-> None, printed |-> <<>>]
            : r \in get_entries(st, [DefaultFilter EXCEPT !.limit = Some(LookupLimit)])}
    ELSE {[entry |-> None, printed |-> <<>>]}

\* ShowCommand.run: exit code and everything printed.
ShowRun(st, id) ==
    {IF IsNone(r.entry)
     THEN [exit |-> 1,
           printed |-> r.printed \o <<[msg |-> "Transcript not found", ids |-> <<id>>]>>]
     ELSE [exit |-> 0,
           printed |-> <<[msg |-> "entry", ids |-> <<Val(r.entry).transcript_id>>]>>]
       : r \in find_entry(st, id)}

\* WisprTools._get_transcript: the dict it returns.  "error" is the value of
\* the error key (None: no such key; the ids are those the message names),
\* "matches" the ids under the matches key, "entry" the id of the entry whose
\* to_dict() is returned, "transcripts" the ids under a transcripts key.
get_transcript(st, id) ==
    IF ~IsNone(get_entry_by_id(st, id))
    THEN {[error |-> None, matches |-> <<>>, entry |-> Some(id), transcripts |-> <<>>]}
    ELSE {LET matches == PrefixMatches(r.entries, id)
          IN  IF Len(matches) = 1
              THEN [error |-> None, matches |-> <<>>,
                    entry |-> Some(matches[1].transcript_id), transcripts |-> <<>>]
              ELSE IF Len(matches) > 1
              THEN [error |-> Some([msg |-> "Multiple matches found for", ids |-> <<id>>]),
                    matches |-> Ids(SubSeq(matches, 1, Min(10, Len(matches)))),
                    entry |-> None, transcripts |-> <<>>]
              ELSE [error |-> Some([msg |-> "Transcript not found:", ids |-> <<id>>]),
                    matches |-> <<>>, entry |-> None, transcripts |-> <<>>]
            : r \in get_entries(st, [DefaultFilter EXCEPT !.limit = Some(LookupLimit)])}

(***************************************************************************)
(* App names: the name_to_bundle table of _resolve_app_filter and of the   *)
(* CLI commands.  Names are atoms; the two string tests the code makes on  *)
(* them are tabulated for the names of the model.                          *)
(***************************************************************************)
\* `"." in app`
HasDot(a) ==
    a \in {"com.tinyspeck.slackmacgap", "md.obsidian", "com.apple.MobileSMS",
           "com.microsoft.VSCode", "com.google.Chrome", "com.electron.wispr-flow",
           "com.openai.chat", "com.apple.Safari", "com.apple.mail",
           "com.apple.Notes", "com.apple.TextEdit", "org.example.app"}

\* app.lower()
LowerName(a) ==
    CASE a = "Slack" -> "slack"
      [] a = "SLACK" -> "slack"
      [] a = "Obsidian" -> "obsidian"
      [] a = "Messages" -> "messages"
      [] a = "VS Code" -> "vs code"
      [] a = "Chrome" -> "chrome"
      [] a = "Wispr Flow" -> "wispr flow"
      [] a = "ChatGPT" -> "chatgpt"
      [] a = "Safari" -> "safari"
      [] a = "Mail" -> "mail"
      [] a = "Notes" -> "notes"
      [] a = "TextEdit" -> "textedit"
      [] OTHER -> a

\* name_to_bundle.get(app.lower(), app)
NameToBundle(a) ==
    CASE LowerName(a) = "slack" -> "com.tinyspeck.slackmacgap"
      [] LowerName(a) = "obsidian" -> "md.obsidian"
      [] LowerName(a) = "messages" -> "com.apple.MobileSMS"
      [] LowerName(a) = "vscode" -> "com.microsoft.VSCode"
      [] LowerName(a) = "vs code" -> "com.microsoft.VSCode"
      [] LowerName(a) = "chrome" -> "com.google.Chrome"
      [] LowerName(a) = "wispr" -> "com.electron.wispr-flow"
      [] LowerName(a) = "wispr flow" -> "com.electron.wispr-flow"
      [] LowerName(a) = "chatgpt" -> "com.openai.chat"
      [] LowerName(a) = "safari" -> "com.apple.Safari"
      [] LowerName(a) = "mail" -> "com.apple.mail"
      [] LowerName(a) = "notes" -> "com.apple.Notes"
      [] OTHER -> a

\* The app filter of a command or tool: None for a falsy argument.
resolve_app_filter(app) ==
    IF ~TruthyStr(app) THEN None
    ELSE IF HasDot(Val(app)) THEN app
    ELSE Some(NameToBundle(Val(app)))

(***************************************************************************)
(* SearchCommand.run.  A since/until argument is None when not given and   *)
(* else holds what DateParser.parse_date returns for it: None or a         *)
(* datetime.                                                               *)
(***************************************************************************)
SearchRun(st, a) ==
    IF ~IsNone(a.since) /\ IsNone(Val(a.since))
    THEN {[exit |-> 1, error |-> "Invalid date format", entries |-> <<>>]}
    ELSE IF ~IsNone(a.until) /\ IsNone(Val(a.until))
    THEN {[exit |-> 1, error |-> "Invalid date format", entries |-> <<>>]}
    ELSE {IF r.exc # ""
          THEN [exit |-> 1, error |-> r.exc, entries |-> <<>>]
          ELSE [exit |-> 0, error |-> "", entries |-> r.entries]
            : r \in search_text(st, a.query,
                      [ limit |-> a.limit, offset |-> None,
                        start_date |-> IF IsNone(a.since) THEN None ELSE Val(a.since),
                        end_date |-> IF IsNone(a.until) THEN None ELSE Val(a.until),
                        app |-> resolve_app_filter(a.app),
                        status |-> a.status,
                        conversation_id |-> a.conversation,
                        include_archived |-> a.include_archived ])}

(***************************************************************************)
(* Stores.                                                                 *)
(***************************************************************************)
\* A row of History; the numeric columns are NULL unless a specification
\* sets them.
MkRow(id, asr, fmt, edt, ts, app, status, arch, conv) ==
    [ transcriptEntityId |-> id, asrText |-> asr, formattedText |-> fmt,
      editedText |-> edt, timestamp |-> ts, app |-> app, status |-> status,
      isArchived |-> arch, conversationId |-> conv,
      duration |-> None, numWords |-> None, e2eLatency |-> None,
      averageLogProb |-> None, additionalContext |-> None ]

\* The id of the k-th row of a store whose ids are given by position.
PosId(k) == <<"r", CASE k = 1 -> "a" [] k = 2 -> "b" [] k = 3 -> "c" [] OTHER -> "d">>

\* All stores of 1..MaxRows rows whose k-th row is in rows[k].
RECURSIVE StoresOfLen(_, _)
StoresOfLen(rows, n) ==
    IF n = 0 THEN {<<>>}
    ELSE {Append(st, r) : st \in StoresOfLen(rows, n - 1), r \in rows[n]}

StoresOver(rows) == UNION {StoresOfLen(rows, n) : n \in 1..MaxRows}

\* The primary key: no two rows share an id.
UniqueIds(st) ==
    \A i, j \in 1..Len(st) : i # j => st[i].transcriptEntityId # st[j].transcriptEntityId

\* The variables of the RPC server while a data-access call is examined.
ServerIdle ==
    /\ dbExists = TRUE
    /\ line = None
    /\ nread = 0
    /\ out = <<>>

NoCall == [op |-> "none"]
NoRet == [exit |-> 0, error |-> "", entries |-> <<>>]

(***************************************************************************)
(* SearchSpec: one run of the CLI search command on some store.            *)
(***************************************************************************)
SearchRows(k) ==
    { MkRow(PosId(k), asr, fmt, edt, ts, Some(app), Some("formatted"), Some(0), None) :
        asr \in {None, Some(<<"a">>), Some(<<"A">>)},
        fmt \in {None, Some(<<"b", "a">>)},
        edt \in {None, Some(<<"B">>)},
        ts \in {Some(StoreText(<<1, 1, 1>>))},
        app \in {"com.tinyspeck.slackmacgap", "md.obsidian"} }

SearchArgs ==
    [ query : {<<"a">>, <<"A">>, <<"b">>},
      case_sensitive : BOOLEAN,
      limit : {Some(50)},
      since : {None, Some(Some(<<1, 0, 0>>))},
      until : {None},
      app : {None, Some("Slack")},
      status : {None, Some("formatted")},
      conversation : {None},
      include_archived : {FALSE} ]

SearchInit ==
    /\ store \in StoresOver([k \in 1..MaxRows |-> SearchRows(k)])
    /\ ServerIdle
    /\ pc = "call"
    /\ qcall = NoCall
    /\ qret = NoRet

DoSearch ==
    /\ pc = "call"
    /\ \E a \in SearchArgs :
        /\ qcall' = [op |-> "search", args |-> a]
        /\ qret' \in SearchRun(store, a)
    /\ pc' = "returned"
    /\ UNCHANGED <<store, dbExists, line, nread, out>>

SearchNext == DoSearch

SearchSpec == SearchInit /\ [][SearchNext]_vars

(***************************************************************************)
(* EntriesSpec: one call of WisprParser.get_entries on some store.         *)
(***************************************************************************)
ModelDates == {<<1, 0>>, <<1, 1>>, <<2, 0>>}
Naive(d) == <<d[1], d[2], 0>>
Aware(d) == <<d[1], d[2], 1>>

\* The first row may also hold a timestamp text that no pattern of
\* _row_to_transcript_entry parses (here the one-character text "T").
EntriesRows(k) ==
    { MkRow(PosId(k), Some(<<"a">>), None, None, ts, Some("md.obsidian"),
            Some("formatted"), arch, None) :
        ts \in {None} \cup {Some(StoreText(Aware(d))) : d \in ModelDates}
                \cup (IF k = 1 THEN {Some(<<CodeT>>)} ELSE {}),
        arch \in {None, Some(0), Some(1)} }

EntriesFilters ==
    [ limit : {None, Some(0), Some(1)},
      offset : {None, Some(1)},
      start_date : {None} \cup {Some(Naive(d)) : d \in ModelDates},
      end_date : {None} \cup {Some(Naive(d)) : d \in ModelDates},
      app : {None},
      status : {None},
      conversation_id : {None},
      include_archived : BOOLEAN ]

EntriesInit ==
    /\ store \in StoresOver([k \in 1..MaxRows |-> EntriesRows(k)])
    /\ ServerIdle
    /\ pc = "call"
    /\ qcall = NoCall
    /\ qret = NoRet

DoGetEntries ==
    /\ pc = "call"
    /\ \E f \in EntriesFilters :
        /\ qcall' = [op |-> "get_entries", args |-> f]
        /\ \E r \in get_entries(store, f) :
             qret' = [exit |-> IF r.exc = "" THEN 0 ELSE 1, error |-> r.exc,
                      entries |-> r.entries]
    /\ pc' = "returned"
    /\ UNCHANGED <<store, dbExists, line, nread, out>>

EntriesNext == DoGetEntries

EntriesSpec == EntriesInit /\ [][EntriesNext]_vars

(***************************************************************************)
(* LookupSpec: one id lookup, by the CLI show command or by the            *)
(* get_transcript tool, on some store.                                     *)
(***************************************************************************)
LookupIds == {<<"a", "a">>, <<"a", "b">>, <<"b", "a">>}
LookupArgs == {<<"a">>, <<"b">>, <<"c">>, <<"a", "a">>, <<"a", "c">>}

LookupRows(k) ==
    { MkRow(id, Some(<<"a">>), None, None, Some(StoreText(<<1, 0, 1>>)),
            Some("md.obsidian"), Some("formatted"), arch, None) :
        id \in LookupIds,
        arch \in {None, Some(0), Some(1)} }

LookupInit ==
    /\ store \in {st \in StoresOver([k \in 1..MaxRows |-> LookupRows(k)]) : UniqueIds(st)}
    /\ ServerIdle
    /\ pc = "call"
    /\ qcall = NoCall
    /\ qret = NoRet

\* `wispr show <id>`
DoShow ==
    /\ pc = "call"
    /\ \E id \in LookupArgs :
        /\ qcall' = [op |-> "show", id |-> id]
        /\ \E r \in ShowRun(store, id) :
             qret' = [exit |-> r.exit, printed |-> r.printed]
    /\ pc' = "returned"
    /\ UNCHANGED <<store, dbExists, line, nread, out>>

\* WisprTools._get_transcript(transcript_id)
DoGetTranscript ==
    /\ pc = "call"
    /\ \E id \in LookupArgs :
        /\ qcall' = [op |-> "get_transcript", id |-> id]
        /\ qret' \in get_transcript(store, id)
    /\ pc' = "returned"
    /\ UNCHANGED <<store, dbExists, line, nread, out>>

LookupNext == DoShow \/ DoGetTranscript

LookupSpec == LookupInit /\ [][LookupNext]_vars

(***************************************************************************)
(* Conversation construction (Conversation.__post_init__) as far as the    *)
(* get_conversation tool needs it: the stable sort by timestamp, which     *)
(* raises TypeError when it has to compare a naive key (a naive timestamp, *)
(* or datetime.min for None) with an aware one.                            *)
(***************************************************************************)
SortKey(e) == IF IsNone(e.timestamp) THEN <<0, 0, 0>> ELSE Val(e.timestamp)

SortRaises(entries) ==
    \E i, j \in 1..Len(entries) : SortKey(entries[i])[3] # SortKey(entries[j])[3]

RECURSIVE InsertByKey(_, _)
InsertByKey(sorted, e) ==
    IF sorted = <<>> THEN <<e>>
    ELSE IF DtLess(SortKey(e), SortKey(Head(sorted)))
         THEN <<e>> \o sorted
         ELSE <<Head(sorted)>> \o InsertByKey(Tail(sorted), e)

\* list.sort(key=...): stable, ascending.
RECURSIVE SortByTimestamp(_)
SortByTimestamp(entries) ==
    IF entries = <<>> THEN <<>>
    ELSE InsertByKey(SortByTimestamp(SubSeq(entries, 1, Len(entries) - 1)),
                     entries[Len(entries)])

\* The non-null timestamps of a list of entries, in list order.
RECURSIVE Timestamps(_)
Timestamps(entries) ==
    IF entries = <<>> THEN <<>>
    ELSE IF IsNone(Head(entries).timestamp) THEN Timestamps(Tail(entries))
         ELSE <<Val(Head(entries).timestamp)>> \o Timestamps(Tail(entries))

\* min(timestamps) and max(timestamps) of a non-empty list.
RECURSIVE MinDt(_)
MinDt(ts) ==
    IF Len(ts) = 1 THEN ts[1]
    ELSE IF DtLess(MinDt(Tail(ts)), ts[1]) THEN MinDt(Tail(ts)) ELSE ts[1]

RECURSIVE MaxDt(_)
MaxDt(ts) ==
    IF Len(ts) = 1 THEN ts[1]
    ELSE IF DtLess(ts[1], MaxDt(Tail(ts))) THEN MaxDt(Tail(ts)) ELSE ts[1]

\* app_counts[a] after the loop over the entries.
AppCount(entries, a) ==
    Cardinality({i \in 1..Len(entries) :
                    TruthyStr(entries[i].app) /\ Val(entries[i].app) = a})

\* max(app_counts, key=app_counts.get): the first-seen app among the most
\* frequent ones; None when no entry has an app.
MostCommonApp(entries) ==
    LET idx == {i \in 1..Len(entries) : TruthyStr(entries[i].app)}
        n(i) == AppCount(entries, Val(entries[i].app))
    IN  IF idx = {} THEN None
        ELSE entries[CHOOSE i \in idx :
                        /\ \A j \in idx : n(j) <= n(i)
                        /\ \A j \in idx : j < i => n(j) < n(i)].app

\* Conversation(conversation_id=cid, entries=entries) when __post_init__
\* does not raise: the dataclass fields after construction.
Conversation(cid, entries) ==
    IF entries = <<>>
    THEN [conversation_id |-> cid, entries |-> <<>>, app |-> None,
          start_time |-> None, end_time |-> None]
    ELSE [conversation_id |-> cid,
          entries |-> SortByTimestamp(entries),
          app |-> MostCommonApp(SortByTimestamp(entries)),
          start_time |-> IF Timestamps(entries) = <<>> THEN None
                         ELSE Some(MinDt(Timestamps(entries))),
          end_time |-> IF Timestamps(entries) = <<>> THEN None
                       ELSE Some(MaxDt(Timestamps(entries)))]

\* WisprParser.get_conversation_by_id: None, the conversation, or an
\* exception.
get_conversation_by_id(st, cid) ==
    {IF r.exc # "" THEN [exc |-> r.exc, conv |-> None]
     ELSE IF r.entries = <<>> THEN [exc |-> "", conv |-> None]
     ELSE IF SortRaises(r.entries) THEN [exc |-> "TypeError", conv |-> None]
     ELSE [exc |-> "", conv |-> Some(Conversation(cid, r.entries))]
       : r \in get_entries(st, [DefaultFilter EXCEPT !.conversation_id = Some(cid)])}

(***************************************************************************)
(* WisprParser.get_conversations.                                          *)
(***************************************************************************)
\* "".join of the characters of a text.
RECURSIVE Join(_)
Join(t) == IF t = <<>> THEN "" ELSE Head(t) \o Join(Tail(t))

\* f"single_{entry.transcript_id}"
SyntheticId(id) == "single_" \o Join(id)

\* entry.conversation_id or f"single_{entry.transcript_id}"
ConvKey(e) ==
    IF TruthyStr(e.conversation_id) THEN Val(e.conversation_id)
    ELSE SyntheticId(e.transcript_id)

\* The keys of conversations_dict, in insertion order.
RECURSIVE KeysInOrder(_)
KeysInOrder(entries) ==
    IF entries = <<>> THEN <<>>
    ELSE LET rest == KeysInOrder(SubSeq(entries, 1, Len(entries) - 1))
             k == ConvKey(entries[Len(entries)])
         IN  IF \E i \in 1..Len(rest) : rest[i] = k THEN rest
             ELSE Append(rest, k)

\* conversations_dict[k]: the entries with that key, in list order.
RECURSIVE MembersOf(_, _)
MembersOf(entries, k) ==
    IF entries = <<>> THEN <<>>
    ELSE IF ConvKey(Head(entries)) = k
         THEN <<Head(entries)>> \o MembersOf(Tail(entries), k)
         ELSE MembersOf(Tail(entries), k)

\* c.start_time or datetime.min
StartKey(c) == IF IsNone(c.start_time) THEN <<0, 0, 0>> ELSE Val(c.start_time)

\* conversations.sort(...) has to compare a naive key with an aware one.
StartSortRaises(convs) ==
    \E i, j \in 1..Len(convs) : StartKey(convs[i])[3] # StartKey(convs[j])[3]

RECURSIVE InsertByStartDesc(_, _)
InsertByStartDesc(sorted, c) ==
    IF sorted = <<>> THEN <<c>>
    ELSE IF DtLess(StartKey(Head(sorted)), StartKey(c))
         THEN <<c>> \o sorted
         ELSE <<Head(sorted)>> \o InsertByStartDesc(Tail(sorted), c)

\* list.sort(key=..., reverse=True): stable, descending.
RECURSIVE SortByStartDesc(_)
SortByStartDesc(convs) ==
    IF convs = <<>> THEN <<>>
    ELSE InsertByStartDesc(SortByStartDesc(SubSeq(convs, 1, Len(convs) - 1)),
                           convs[Len(convs)])

\* The outcomes of get_conversations: an exception name, or the list of
\* conversations.
get_conversations(st, f) ==
    {IF r.exc # "" THEN [exc |-> r.exc, convs |-> <<>>]
     ELSE LET keys == KeysInOrder(r.entries)
              groups == [k \in 1..Len(keys) |-> MembersOf(r.entries, keys[k])]
              built == [k \in 1..Len(keys) |-> Conversation(keys[k], groups[k])]
          IN  IF \E k \in 1..Len(keys) : SortRaises(groups[k])
              THEN [exc |-> "TypeError", convs |-> <<>>]
              ELSE IF StartSortRaises(built)
              THEN [exc |-> "TypeError", convs |-> <<>>]
              ELSE [exc |-> "", convs |-> SortByStartDesc(built)]
       : r \in get_entries(st, f)}

(***************************************************************************)
(* WisprTools.execute_tool.                                                *)
(*  The arguments of a call are a record: type ("object" for a JSON        *)
(*  object), the set of keys present, and the values of the keys the       *)
(*  model's calls use.                                                     *)
(***************************************************************************)
Catalog ==
    {"get_recent_transcripts", "list_transcripts", "search_transcripts",
     "get_transcript", "get_conversations", "get_conversation",
     "get_app_statistics", "get_database_statistics", "export_transcripts",
     "get_dictionary_entries"}

\* The tools whose bodies are modelled; the lines of the model call these.
ModelledTools ==
    {"get_recent_transcripts", "search_transcripts", "get_transcript",
     "get_conversation", "get_dictionary_entries"}

\* The parameters of each tool's method.
ToolParams(name) ==
    CASE name = "get_recent_transcripts" -> {"limit", "app", "status", "include_archived"}
      [] name = "list_transcripts" ->
           {"since", "until", "app", "status", "limit", "include_archived"}
      [] name = "search_transcripts" -> {"query", "since", "until", "app", "limit"}
      [] name = "get_transcript" -> {"transcript_id", "include_context"}
      [] name = "get_conversations" -> {"since", "until", "app", "limit"}
      [] name = "get_conversation" -> {"conversation_id", "format"}
      [] name = "get_app_statistics" -> {"limit", "sort_by", "min_entries"}
      [] name = "get_database_statistics" -> {"since", "until", "app"}
      [] name = "export_transcripts" ->
           {"format", "since", "until", "app", "limit", "group_by_conversation"}
      [] OTHER -> {}

\* The parameters without a default, which are the "required" lists of
\* get_tools_schema.
ToolRequired(name) ==
    CASE name = "search_transcripts" -> {"query"}
      [] name = "get_transcript" -> {"transcript_id"}
      [] name = "get_conversation" -> {"conversation_id"}
      [] OTHER -> {}

ToolError(msg, ids) ==
    [error |-> Some([msg |-> msg, ids |-> ids]), matches |-> <<>>,
     entry |-> None, transcripts |-> <<>>]

ToolOk(ids) ==
    [error |-> None, matches |-> <<>>, entry |-> None, transcripts |-> ids]

\* method(**arguments) raises TypeError: arguments is no mapping, names a
\* parameter the method lacks, or lacks one without default.
BindingFails(name, args) ==
    \/ args.type # "object"
    \/ ~(args.keys \subseteq ToolParams(name))
    \/ ~(ToolRequired(name) \subseteq args.keys)

RecentLimit == 10    \* _get_recent_transcripts(limit=10)
SearchLimit == 50    \* _search_transcripts(limit=50)

\* The body of a modelled tool, called with the arguments of the model.
ToolBody(st, name, args) ==
    CASE name = "get_transcript" -> get_transcript(st, args.transcript_id)
      [] name = "search_transcripts" ->
           {IF r.exc # "" THEN ToolError("Tool execution failed:", <<>>)
            ELSE ToolOk(Ids(r.entries))
              : r \in search_text(st, args.query,
                        [DefaultFilter EXCEPT !.limit = Some(SearchLimit)])}
      [] name = "get_recent_transcripts" ->
           {IF r.exc # "" THEN ToolError("Tool execution failed:", <<>>)
            ELSE ToolOk(Ids(r.entries))
              : r \in get_entries(st, [DefaultFilter EXCEPT !.limit = Some(RecentLimit)])}
      [] name = "get_conversation" ->
           {IF r.exc # "" THEN ToolError("Tool execution failed:", <<>>)
            ELSE IF IsNone(r.conv) THEN ToolError("Conversation not found:", <<>>)
            ELSE ToolOk(Ids(Val(r.conv).entries))
              : r \in get_conversation_by_id(st, args.conversation_id)}
      [] name = "get_dictionary_entries" -> {ToolOk(<<>>)}
      [] OTHER -> {ToolOk(<<>>), ToolError("Tool execution failed:", <<>>)}

execute_tool(st, name, args) ==
    IF name \notin Catalog THEN {ToolError("Unknown tool:", <<>>)}
    ELSE IF BindingFails(name, args) THEN {ToolError("Tool execution failed:", <<>>)}
    ELSE ToolBody(st, name, args)

(***************************************************************************)
(* MCPServer: requests, responses, handle_request.                         *)
(*  A line is blank, or text whose json.loads result is None (it raises    *)
(*  JSONDecodeError) or a JSON value; a JSON value is an object with its   *)
(*  method, id and params members (None: no such member) or another value. *)
(***************************************************************************)
ParseError == -32700
MethodNotFound == -32601
InvalidParams == -32602
InternalError == -32603

NoRpcMessage == [msg |-> "", ids |-> <<>>]

\* Mutant: the error envelope drops the request id.
_error_response_NoId(request_id, code, message) ==
    [jsonrpc |-> "2.0", id |-> None,
     error |-> Some([code |-> code, message |-> message]), result |-> None]

_error_response(request_id, code, message) ==
    [jsonrpc |-> "2.0", id |-> request_id,
     error |-> Some([code |-> code, message |-> message]), result |-> None]

ResultResponse(request_id, kind, content) ==
    [jsonrpc |-> "2.0", id |-> request_id, error |-> None,
     result |-> Some([kind |-> kind, content |-> content])]

_handle_initialize(request_id) == ResultResponse(request_id, "initialize", None)
_handle_tools_list(request_id) == ResultResponse(request_id, "tools", None)
_handle_ping(request_id) == ResultResponse(request_id, "ping", None)

\* The arguments an absent "arguments" member stands for: {}.
EmptyArguments ==
    [type |-> "object", keys |-> {}, transcript_id |-> <<>>, query |-> <<>>,
     conversation_id |-> ""]

\* _handle_tools_call: the responses it may return, or "raised" when
\* params.get fails because params is no object.
_handle_tools_call(st, request_id, params) ==
    IF params.type # "object"
    THEN {[raised |-> TRUE, resp |-> _error_response(request_id, InternalError, NoRpcMessage)]}
    ELSE IF ~TruthyStr(params.name)
    THEN {[raised |-> FALSE,
           resp |-> _error_response(request_id, InvalidParams,
                                    [msg |-> "Missing tool name", ids |-> <<>>])]}
    ELSE {[raised |-> FALSE,
           resp |-> IF ~IsNone(r.error)
                    THEN _error_response(request_id, InternalError, Val(r.error))
                    ELSE ResultResponse(request_id, "content", Some(r))]
            : r \in execute_tool(st, Val(params.name),
                      IF IsNone(params.arguments) THEN EmptyArguments
                      ELSE Val(params.arguments))}

\* An absent "params" member stands for {}.
EmptyParams == [type |-> "object", name |-> None, arguments |-> None]

\* handle_request: the response returned, or "raised" when the except clause
\* itself fails (request_data is no object, so request_id was never bound).
handle_request(st, req) ==
    IF req.type # "object"
    THEN {[raised |-> TRUE, resp |-> _error_response(None, InternalError, NoRpcMessage)]}
    ELSE LET params == IF IsNone(req.params) THEN EmptyParams ELSE Val(req.params)
         IN  IF req.method = Some("initialize")
             THEN {[raised |-> FALSE, resp |-> _handle_initialize(req.id)]}
             ELSE IF req.method = Some("tools/list")
             THEN {[raised |-> FALSE, resp |-> _handle_tools_list(req.id)]}
             ELSE IF req.method = Some("tools/call")
             THEN {IF r.raised
                   THEN [raised |-> FALSE,
                         resp |-> _error_response(req.id, InternalError,
                                    [msg |-> "Internal error:", ids |-> <<>>])]
                   ELSE r
                     : r \in _handle_tools_call(st, req.id, params)}
             ELSE IF req.method = Some("ping")
             THEN {[raised |-> FALSE, resp |-> _handle_ping(req.id)]}
             ELSE {[raised |-> FALSE,
                    resp |-> _error_response(req.id, MethodNotFound,
                               [msg |-> "Method not found:", ids |-> <<>>])]}

\* json.loads(line)
JsonLoads(l) == l.parse

\* Mutant: a JSONDecodeError is reported with the internal-error code.
RunIteration_BadParseCode(st, l) ==
    IF l.kind = "eof" THEN {[pc |-> "done", printed |-> <<>>]}
    ELSE IF l.kind = "blank" THEN {[pc |-> "read", printed |-> <<>>]}
    ELSE IF IsNone(JsonLoads(l))
    THEN {[pc |-> "read",
           printed |-> <<_error_response(None, InternalError,
                            [msg |-> "Parse error:", ids |-> <<>>])>>]}
    ELSE {IF r.raised
          THEN [pc |-> "read",
                printed |-> <<_error_response(None, InternalError,
                                 [msg |-> "Server error:", ids |-> <<>>])>>]
          ELSE [pc |-> "read", printed |-> <<r.resp>>]
            : r \in handle_request(st, Val(JsonLoads(l)))}

\* Mutant: a blank line is not skipped but parsed, and answered with a parse
\* error.
RunIteration_BlankAnswered(st, l) ==
    IF l.kind = "eof" THEN {[pc |-> "done", printed |-> <<>>]}
    ELSE IF IsNone(JsonLoads(l))
    THEN {[pc |-> "read",
           printed |-> <<_error_response(None, ParseError,
                            [msg |-> "Parse error:", ids |-> <<>>])>>]}
    ELSE {IF r.raised
          THEN [pc |-> "read",
                printed |-> <<_error_response(None, InternalError,
                                 [msg |-> "Server error:", ids |-> <<>>])>>]
          ELSE [pc |-> "read", printed |-> <<r.resp>>]
            : r \in handle_request(st, Val(JsonLoads(l)))}

\* Mutant: an exception that escapes handle_request ends the loop.
RunIteration_CrashOnRaise(st, l) ==
    IF l.kind = "eof" THEN {[pc |-> "done", printed |-> <<>>]}
    ELSE IF l.kind = "blank" THEN {[pc |-> "read", printed |-> <<>>]}
    ELSE IF IsNone(JsonLoads(l))
    THEN {[pc |-> "read",
           printed |-> <<_error_response(None, ParseError,
                            [msg |-> "Parse error:", ids |-> <<>>])>>]}
    ELSE {IF r.raised
          THEN [pc |-> "done", printed |-> <<>>]
          ELSE [pc |-> "read", printed |-> <<r.resp>>]
            : r \in handle_request(st, Val(JsonLoads(l)))}

\* One pass of the loop of MCPServer.run over what readline returned: where
\* the loop goes next and what it printed.
RunIteration(st, l) ==
    IF l.kind = "eof" THEN {[pc |-> "done", printed |-> <<>>]}
    ELSE IF l.kind = "blank" THEN {[pc |-> "read", printed |-> <<>>]}
    ELSE IF IsNone(JsonLoads(l))
    THEN {[pc |-> "read",
           printed |-> <<_error_response(None, ParseError,
                            [msg |-> "Parse error:", ids |-> <<>>])>>]}
    ELSE {IF r.raised
          THEN [pc |-> "read",
                printed |-> <<_error_response(None, InternalError,
                                 [msg |-> "Server error:", ids |-> <<>>])>>]
          ELSE [pc |-> "read", printed |-> <<r.resp>>]
            : r \in handle_request(st, Val(JsonLoads(l)))}

\* Mutant: main reports the absent store and enters the loop all the same.
MainStart_KeepsRunning(exists) ==
    IF exists THEN [pc |-> "read", printed |-> <<>>]
    ELSE [pc |-> "read",
          printed |-> <<[jsonrpc |-> "2.0", id |-> None,
                         error |-> Some([code |-> InternalError,
                                         message |-> [msg |-> "Database not found:",
                                                      ids |-> <<>>]]),
                         result |-> None]>>]

\* main(): constructing the server raises FileNotFoundError when the store
\* file is absent; main prints one error response and calls sys.exit(1).
MainStart(exists) ==
    IF exists THEN [pc |-> "read", printed |-> <<>>]
    ELSE [pc |-> "exit1",
          printed |-> <<[jsonrpc |-> "2.0", id |-> None,
                         error |-> Some([code |-> InternalError,
                                         message |-> [msg |-> "Database not found:",
                                                      ids |-> <<>>]]),
                         result |-> None]>>]

(***************************************************************************)
(* Spec: the RPC server process.                                           *)
(*  pc: "start" (main entered), "read" (blocked in readline), "handle"     *)
(*  (readline returned), "done" (loop left at end of input),               *)
(*  "interrupted" (loop left on KeyboardInterrupt), "exit1" (sys.exit(1)). *)
(***************************************************************************)
EofLine == [kind |-> "eof", parse |-> None]
BlankLine == [kind |-> "blank", parse |-> None]
BadJsonLine == [kind |-> "text", parse |-> None]
NonObject == [type |-> "other", method |-> None, id |-> None, params |-> None]

Request(method, id, params) ==
    [kind |-> "text",
     parse |-> Some([type |-> "object", method |-> method, id |-> id, params |-> params])]

Arguments(keys, tid) ==
    [type |-> "object", keys |-> keys, transcript_id |-> tid, query |-> <<"a">>,
     conversation_id |-> "conv-1"]

NonObjectArguments == [EmptyArguments EXCEPT !.type = "other"]

ToolCall(name, arguments) ==
    Some([type |-> "object", name |-> name, arguments |-> arguments])

NonObjectParams == Some([type |-> "other", name |-> None, arguments |-> None])

RequestIds == {None, Some(1), Some(2)}

ToolCallParams ==
    {None, NonObjectParams,
     ToolCall(None, None),
     ToolCall(Some(""), None),
     ToolCall(Some("nosuch"), None),
     ToolCall(Some("get_dictionary_entries"), Some(NonObjectArguments)),
     ToolCall(Some("get_recent_transcripts"), None),
     ToolCall(Some("get_transcript"), Some(Arguments({}, <<>>))),
     ToolCall(Some("get_transcript"), Some(Arguments({"transcript_id"}, <<"a">>))),
     ToolCall(Some("get_transcript"), Some(Arguments({"transcript_id"}, <<"a", "a">>))),
     ToolCall(Some("get_transcript"), Some(Arguments({"transcript_id", "bogus"}, <<"a">>))),
     ToolCall(Some("search_transcripts"), None),
     ToolCall(Some("search_transcripts"), Some(Arguments({"query"}, <<>>))),
     ToolCall(Some("get_conversation"), None),
     ToolCall(Some("get_conversation"), Some(Arguments({"conversation_id"}, <<>>)))}

\* The lines of the model: every kind of line, every method, every shape of
\* tools/call; the id varies where responses are told apart by it.
ServerLines ==
    {BlankLine, BadJsonLine, [kind |-> "text", parse |-> Some(NonObject)]}
    \cup {Request(m, Some(1), None) :
            m \in {None, Some("initialize"), Some("tools/list")}}
    \cup {Request(m, i, None) :
            m \in {Some("ping"), Some("resources/list")}, i \in RequestIds}
    \cup {Request(Some("tools/call"), Some(2), ps) : ps \in ToolCallParams}
    \cup {Request(Some("tools/call"), None,
                  ToolCall(Some("get_transcript"),
                           Some(Arguments({"transcript_id"}, <<"a">>))))}

ServerRow(id, arch, conv) ==
    MkRow(id, Some(<<"a">>), None, None, Some(StoreText(<<1, 0, 1>>)),
          Some("md.obsidian"), Some("formatted"), arch, conv)

ServerStores ==
    { <<ServerRow(<<"a", "a">>, Some(0), Some("conv-1"))>>,
      <<ServerRow(<<"a", "a">>, Some(0), None), ServerRow(<<"a", "b">>, Some(0), None)>> }

Init ==
    /\ store \in ServerStores
    /\ dbExists \in BOOLEAN
    /\ pc = "start"
    /\ line = None
    /\ nread = 0
    /\ out = <<>>
    /\ qcall = NoCall
    /\ qret = NoRet

\* What is printed, tagged with the line it was printed for (None: none).
Emit(printed, l) == [k \in 1..Len(printed) |-> [req |-> l, resp |-> printed[k]]]

\* main() up to the first readline.
Startup ==
    /\ pc = "start"
    /\ pc' = MainStart(dbExists).pc
    /\ out' = out \o Emit(MainStart(dbExists).printed, None)
    /\ UNCHANGED <<store, dbExists, line, nread, qcall, qret>>

\* readline returns: a line of the input, or "" at its end.
ReadLine ==
    /\ pc = "read"
    /\ \E l \in ServerLines \cup {EofLine} :
        /\ l.kind # "eof" => nread < MaxLines
        /\ line' = Some(l)
        /\ nread' = IF l.kind = "eof" THEN nread ELSE nread + 1
    /\ pc' = "handle"
    /\ UNCHANGED <<store, dbExists, out, qcall, qret>>

\* The rest of the loop body for the line read.
Process ==
    /\ pc = "handle"
    /\ \E o \in RunIteration(store, Val(line)) :
        /\ pc' = o.pc
        /\ out' = out \o Emit(o.printed, line)
    /\ line' = None
    /\ UNCHANGED <<store, dbExists, nread, qcall, qret>>

\* KeyboardInterrupt inside the loop's try: break.
Interrupt ==
    /\ pc \in {"read", "handle"}
    /\ pc' = "interrupted"
    /\ line' = None
    /\ UNCHANGED <<store, dbExists, nread, out, qcall, qret>>

Next == Startup \/ ReadLine \/ Process \/ Interrupt

Spec == Init /\ [][Next]_vars

(***************************************************************************)
(* Properties of the data access layer.                                    *)
(***************************************************************************)
Range(s) == {s[k] : k \in 1..Len(s)}

\* Q occurs in one of the three text fields under the requested case rule.
ContainsUnderRule(e, q, caseSensitive) ==
    \E t \in {e.asr_text, e.formatted_text, e.edited_text} :
        /\ ~IsNone(t)
        /\ IF caseSensitive THEN Contains(Val(t), q)
           ELSE Contains(Lower(Val(t)), Lower(q))

\* The entry's timestamp, as an instant, lies in [S, E] (absent bounds are
\* no constraint; no timestamp fails any bound).
InRange(e, S, E) ==
    /\ ~IsNone(S) => (~IsNone(e.timestamp) /\ DtLeq(Val(S), Val(e.timestamp)))
    /\ ~IsNone(E) => (~IsNone(e.timestamp) /\ DtLeq(Val(e.timestamp), Val(E)))

\* The entry satisfies the date/app/status filters of a search request.
PassesSearchFilters(e, a) ==
    /\ InRange(e, IF IsNone(a.since) THEN None ELSE Val(a.since),
                  IF IsNone(a.until) THEN None ELSE Val(a.until))
    /\ ~IsNone(resolve_app_filter(a.app)) => e.app = resolve_app_filter(a.app)
    /\ TruthyStr(a.status) => e.status = a.status

\* C1: every entry a text search returns contains the query in one of its
\* three text fields under the requested case rule (exact when case-sensitive
\* search is requested, case-folded otherwise) and satisfies the
\* date/app/status filters of the request.
C1_SearchSound ==
    (pc = "returned" /\ qcall.op = "search" /\ qret.exit = 0) =>
        \A k \in 1..Len(qret.entries) :
            /\ ContainsUnderRule(qret.entries[k], qcall.args.query,
                                 qcall.args.case_sensitive)
            /\ PassesSearchFilters(qret.entries[k], qcall.args)

\* The lookup outcomes of both surfaces.
LookupFound(id) ==
    IF qcall.op = "show"
    THEN qret.exit = 0 /\ qret.printed = <<[msg |-> "entry", ids |-> <<id>>]>>
    ELSE qret.entry = Some(id) /\ IsNone(qret.error)

LookupAmbiguous ==
    IF qcall.op = "show"
    THEN qret.exit = 1
         /\ \E k \in 1..Len(qret.printed) : qret.printed[k].msg = "Multiple matches found"
    ELSE ~IsNone(qret.error) /\ Val(qret.error).msg = "Multiple matches found for"
         /\ IsNone(qret.entry)

LookupNotFound ==
    IF qcall.op = "show"
    THEN qret.exit = 1
         /\ \A k \in 1..Len(qret.printed) : qret.printed[k].msg = "Transcript not found"
    ELSE ~IsNone(qret.error) /\ Val(qret.error).msg = "Transcript not found:"
         /\ IsNone(qret.entry)

StoredIds == {store[i].transcriptEntityId : i \in 1..Len(store)}

\* C2: for an id argument that no stored id equals: exactly one stored id
\* starting with it gives that record; none gives NotFound; two or more give
\* AmbiguousMatch, which is not NotFound and is none of the records.
C2_PrefixLookup ==
    (pc = "returned" /\ qcall.op \in {"show", "get_transcript"}
        /\ qcall.id \notin StoredIds) =>
        LET cands == {i \in StoredIds : StartsWith(i, qcall.id)}
        IN  /\ Cardinality(cands) = 1 => \E i \in cands : LookupFound(i)
            /\ Cardinality(cands) = 0 => LookupNotFound
            /\ Cardinality(cands) >= 2 => (LookupAmbiguous /\ ~LookupNotFound)

\* C4: get_entries with bounds S and/or E returns exactly the entries (passing
\* the other filters) whose timestamp, as an instant, lies in [S, E].
C4_RangeExact ==
    (pc = "returned" /\ qcall.op = "get_entries"
        /\ IsNone(qcall.args.limit) /\ IsNone(qcall.args.offset)) =>
        {e.transcript_id : e \in Range(qret.entries)} =
            {store[i].transcriptEntityId : i \in
                {j \in 1..Len(store) :
                    /\ RowMatches(store[j],
                         [qcall.args EXCEPT !.start_date = None, !.end_date = None])
                    /\ InRange(RowToEntry(store[j]), qcall.args.start_date,
                               qcall.args.end_date)}}

(***************************************************************************)
(* Properties of the RPC server.                                           *)
(***************************************************************************)
Code(resp) == IF IsNone(resp.error) THEN 0 ELSE Val(resp.error).code

IsObjectRequest(l) ==
    ~IsNone(l) /\ Val(l).kind = "text" /\ ~IsNone(Val(l).parse)
        /\ Val(Val(l).parse).type = "object"

RequestOf(l) == Val(Val(l).parse)

KnownMethods == {Some("initialize"), Some("tools/list"), Some("tools/call"), Some("ping")}

\* A tools/call request with object params.
IsToolCall(l) ==
    /\ IsObjectRequest(l)
    /\ RequestOf(l).method = Some("tools/call")
    /\ ~IsNone(RequestOf(l).params)
    /\ Val(RequestOf(l).params).type = "object"

CallName(l) == Val(RequestOf(l).params).name
CallArguments(l) ==
    IF IsNone(Val(RequestOf(l).params).arguments) THEN EmptyArguments
    ELSE Val(Val(RequestOf(l).params).arguments)

\* A get_transcript call whose id prefix matches more than one record the
\* lookup sees.
IsAmbiguousCall(l) ==
    /\ IsToolCall(l)
    /\ CallName(l) = Some("get_transcript")
    /\ ~BindingFails("get_transcript", CallArguments(l))
    /\ \E r \in get_transcript(store, CallArguments(l).transcript_id) : r.matches # <<>>

CandidatesOf(l) ==
    UNION {Range(r.matches) : r \in get_transcript(store, CallArguments(l).transcript_id)}

\* Every id a response carries: in its error message, or in its result.
CarriedIds(resp) ==
    IF ~IsNone(resp.error) THEN Range(Val(resp.error).message.ids)
    ELSE IF IsNone(Val(resp.result).content) THEN {}
    ELSE LET r == Val(Val(resp.result).content)
         IN  Range(r.matches) \cup Range(r.transcripts) \cup Range(r.entry)

\* C3: the response to a get_transcript call with an ambiguous id prefix is
\* an error that carries the ids of the candidate records.
C3_AmbiguityCarriesCandidates ==
    \A k \in 1..Len(out) :
        IsAmbiguousCall(out[k].req) =>
            /\ ~IsNone(out[k].resp.error)
            /\ CandidatesOf(out[k].req) \subseteq CarriedIds(out[k].resp)

\* Handling the line fails unexpectedly: the JSON value is no object, the
\* params of tools/call are no object, or the tool arguments are no object.
UnexpectedFailure(l) ==
    \/ ~IsNone(l) /\ Val(l).kind = "text" /\ ~IsNone(Val(l).parse)
         /\ Val(Val(l).parse).type # "object"
    \/ IsObjectRequest(l) /\ RequestOf(l).method = Some("tools/call")
         /\ ~IsNone(RequestOf(l).params) /\ Val(RequestOf(l).params).type # "object"
    \/ IsToolCall(l) /\ TruthyStr(CallName(l)) /\ CallArguments(l).type # "object"

Last(s) == s[Len(s)]

\* C5: every non-blank line is answered; invalid JSON with -32700; a request
\* with a method other than initialize, tools/list, tools/call, ping with
\* -32601; a request with one of these four never with -32601 or -32700; an
\* unexpected failure while handling with -32603.
C5_ErrorCodes ==
    [][(pc = "handle" /\ pc' = "read" /\ Val(line).kind = "text") =>
        /\ Len(out') = Len(out) + 1
        /\ Last(out').req = line
        /\ IsNone(Val(line).parse) => Code(Last(out').resp) = ParseError
        /\ (IsObjectRequest(line) /\ RequestOf(line).method \notin KnownMethods)
              => Code(Last(out').resp) = MethodNotFound
        /\ (IsObjectRequest(line) /\ RequestOf(line).method \in KnownMethods)
              => Code(Last(out').resp) \notin {MethodNotFound, ParseError}
        /\ UnexpectedFailure(line) => Code(Last(out').resp) = InternalError]_vars

\* Witness of C5: a parse error and an internal error for a non-object JSON
\* value have both been answered.
C5_Witness ==
    \E i, j \in 1..Len(out) :
        /\ Code(out[i].resp) = ParseError /\ IsNone(Val(out[i].req).parse)
        /\ Code(out[j].resp) = InternalError /\ UnexpectedFailure(out[j].req)

\* A tools/call request that omits a required argument: the tool name, or an
\* argument the catalog marks as required.
OmitsRequired(l) ==
    /\ IsToolCall(l)
    /\ \/ ~TruthyStr(CallName(l))
       \/ /\ Val(CallName(l)) \in Catalog
          /\ CallArguments(l).type = "object"
          /\ ~(ToolRequired(Val(CallName(l))) \subseteq CallArguments(l).keys)

\* C6: a tools/call request that omits the tool name or an argument the tool
\* catalog marks as required is answered with error code -32602.
C6_MissingArgumentCode ==
    \A k \in 1..Len(out) :
        OmitsRequired(out[k].req) => Code(out[k].resp) = InvalidParams

\* C7: every response has jsonrpc "2.0" and, when the line it answers parsed
\* as a JSON object, the id of that request (null when it has none).
C7_EchoesId ==
    \A k \in 1..Len(out) :
        /\ out[k].resp.jsonrpc = "2.0"
        /\ IsObjectRequest(out[k].req) => out[k].resp.id = RequestOf(out[k].req).id

\* Witness of C7: an error and a result have been sent for requests with two
\* different ids.
C7_Witness ==
    \E i, j \in 1..Len(out) :
        /\ IsObjectRequest(out[i].req) /\ IsObjectRequest(out[j].req)
        /\ out[i].resp.id = Some(1) /\ ~IsNone(out[i].resp.error)
        /\ out[j].resp.id = Some(2) /\ ~IsNone(out[j].resp.result)

\* C8: requests are handled strictly one at a time: a step prints at most one
\* response, and only for the line the loop holds, which it then drops; a
\* line is read only when none is held, and nothing is printed by reading; a
\* blank line prints nothing.
C8_OneAtATime ==
    [][/\ Len(out') <= Len(out) + 1
       /\ SubSeq(out', 1, Len(out)) = out
       /\ (out' # out /\ pc # "start") =>
            (pc = "handle" /\ Last(out').req = line /\ line' = None /\ pc' = "read")
       /\ nread' # nread =>
            (pc = "read" /\ line = None /\ out' = out /\ nread' = nread + 1)
       /\ pc' = "read" => line' = None
       /\ (pc = "handle" /\ Val(line).kind = "blank") => out' = out]_vars

\* Witness of C8: two lines were read, one of them blank, one answered, and
\* the loop is back at readline.
C8_Witness ==
    /\ nread = 2 /\ pc = "read" /\ Len(out) = 1
    /\ ~IsNone(out[1].req)

\* A request every server answers with a result.
IsPlainRequest(l) ==
    IsObjectRequest(l)
        /\ RequestOf(l).method \in {Some("initialize"), Some("tools/list"), Some("ping")}

HasError(s) == \E k \in 1..Len(s) : ~IsNone(s[k].req) /\ ~IsNone(s[k].resp.error)

\* C9: whatever line was handled (an error response included) the loop goes
\* back to readline; after error responses a valid request still gets its
\* result; the loop is left only at the end of input or on an interrupt, and
\* at the end of input it is left; the process never exits with a failure
\* once the loop runs.
C9_LoopSurvives ==
    [][/\ (pc = "handle" /\ Val(line).kind # "eof" /\ pc' # "interrupted")
            => pc' = "read"
       /\ (pc = "handle" /\ Val(line).kind = "eof" /\ pc' # "interrupted")
            => pc' = "done"
       /\ (pc' = "done" /\ pc # "done")
            => (pc = "handle" /\ Val(line).kind = "eof")
       /\ pc' = "exit1" => pc \in {"start", "exit1"}
       /\ (pc = "handle" /\ pc' = "read" /\ HasError(out) /\ IsPlainRequest(line))
            => /\ Len(out') = Len(out) + 1
               /\ ~IsNone(Last(out').resp.result)
               /\ Last(out').resp.id = RequestOf(line).id]_vars

\* Witness of C9: an error response was followed by a result, and the loop
\* ended at the end of input.
C9_Witness ==
    /\ pc = "done"
    /\ \E i, j \in 1..Len(out) :
        i < j /\ ~IsNone(out[i].resp.error) /\ ~IsNone(out[j].resp.result)

StartupError(resp) ==
    resp.jsonrpc = "2.0" /\ IsNone(resp.id) /\ Code(resp) = InternalError

\* C10 as stated: with the store file absent at startup the server reports a
\* JSON-RPC error and goes on to read requests.
C10_ServerContinues ==
    [][(pc = "start" /\ ~dbExists) =>
        (pc' = "read" /\ Len(out') = 1 /\ StartupError(out'[1].resp))]_vars

\* C10, amended: with the store file absent at startup the server prints one
\* JSON-RPC error (id null, code -32603) and exits with status 1; it reads
\* no request and prints nothing else.
C10_StartupFatal ==
    /\ [][(pc = "start" /\ ~dbExists) =>
            (pc' = "exit1" /\ Len(out') = 1 /\ StartupError(out'[1].resp))]_vars
    /\ [](pc = "exit1" => (nread = 0 /\ Len(out) = 1 /\ IsNone(line)))
    /\ [][pc = "exit1" => pc' = "exit1"]_vars

\* Witness of C10: the store file was absent and the process has exited.
C10_Witness ==
    ~dbExists /\ pc = "exit1" /\ Len(out) = 1 /\ StartupError(out[1].resp)

(***************************************************************************)
(* ConvSpec: one call of WisprParser.get_conversations, or of              *)
(* WisprParser.get_conversation_by_id, on some store.                      *)
(***************************************************************************)
ConvRows(k) ==
    { MkRow(PosId(k), Some(<<"a">>), None, None, ts, Some(app), Some("formatted"),
            arch, conv) :
        ts \in {None, Some(StoreText(<<1, 0, 1>>)), Some(StoreText(<<2, 0, 1>>))},
        app \in {"md.obsidian", "com.apple.Notes"},
        arch \in {Some(0), Some(1)},
        conv \in {None, Some(""), Some("conv-1"), Some("single_rb")} }

ConvFilters ==
    { [DefaultFilter EXCEPT !.limit = l, !.conversation_id = c,
                            !.include_archived = a] :
        l \in {None, Some(1)}, c \in {None, Some("conv-1")}, a \in BOOLEAN }

ConvIds == {"conv-1", "single_rb", "conv-2"}

ConvInit ==
    /\ store \in StoresOver([k \in 1..MaxRows |-> ConvRows(k)])
    /\ ServerIdle
    /\ pc = "call"
    /\ qcall = NoCall
    /\ qret = NoRet

DoGetConversations ==
    /\ pc = "call"
    /\ \E f \in ConvFilters :
        /\ qcall' = [op |-> "get_conversations", args |-> f]
        /\ \E r \in get_conversations(store, f) :
             qret' = [exit |-> IF r.exc = "" THEN 0 ELSE 1, error |-> r.exc,
                      convs |-> r.convs]
    /\ pc' = "returned"
    /\ UNCHANGED <<store, dbExists, line, nread, out>>

DoGetConversationById ==
    /\ pc = "call"
    /\ \E cid \in ConvIds :
        /\ qcall' = [op |-> "get_conversation_by_id", id |-> cid]
        /\ \E r \in get_conversation_by_id(store, cid) :
             qret' = [exit |-> IF r.exc = "" THEN 0 ELSE 1, error |-> r.exc,
                      convs |-> IF IsNone(r.conv) THEN <<>> ELSE <<Val(r.conv)>>]
    /\ pc' = "returned"
    /\ UNCHANGED <<store, dbExists, line, nread, out>>

ConvNext == DoGetConversations \/ DoGetConversationById

ConvSpec == ConvInit /\ [][ConvNext]_vars

(***************************************************************************)
(* Properties of conversation grouping.                                    *)
(***************************************************************************)
\* The ids of the members of the k-th conversation of the result.
MemberIds(k) == Range(Ids(qret.convs[k].entries))

\* The result groups the entries r: every entry of r is a member of exactly
\* one conversation, no conversation has another member, and an entry
\* without a conversation id is in the conversation keyed by its synthetic
\* id.
GroupsExactly(r) ==
    /\ \A i \in 1..Len(r.entries) :
         Cardinality({k \in 1..Len(qret.convs) :
                         r.entries[i].transcript_id \in MemberIds(k)}) = 1
    /\ \A k \in 1..Len(qret.convs) : MemberIds(k) \subseteq Range(Ids(r.entries))
    /\ \A k \in 1..Len(qret.convs) : Len(qret.convs[k].entries) > 0
    /\ \A k \in 1..Len(qret.convs) : \A m \in 1..Len(qret.convs[k].entries) :
         ~TruthyStr(qret.convs[k].entries[m].conversation_id) =>
            qret.convs[k].conversation_id
                = SyntheticId(qret.convs[k].entries[m].transcript_id)

\* C11: for every store and filter set, get_conversations returns a
\* partition of what get_entries returns for the same filters: the member ids
\* of its conversations are together the ids of the ungrouped result, each
\* entry in exactly one conversation, entries without a conversation id under
\* the synthetic id made from their own id.
C11_GroupingPartitions ==
    (pc = "returned" /\ qcall.op = "get_conversations") =>
        \E r \in get_entries(store, qcall.args) :
            /\ qret.error = r.exc
            /\ r.exc = "" => GroupsExactly(r)

(***************************************************************************)
(* WisprParser.get_apps and the app statistics of the RPC tool             *)
(* (WisprTools._get_app_statistics) and of the CLI (AppsCommand.run).      *)
(*  Durations, word counts and latencies are integers; a mean is the pair  *)
(*  of a sum and a count.                                                  *)
(***************************************************************************)
\* The rows of the store that GROUP BY app puts in the group of app a.
RowsOfApp(st, a) == {i \in 1..Len(st) : ~IsNone(st[i].app) /\ Val(st[i].app) = a}

\* The groups: `WHERE app IS NOT NULL AND app != ''`.
AppsOf(st) == {Val(st[i].app) : i \in {j \in 1..Len(st) : TruthyStr(st[j].app)}}

\* SUM(col) over a set of rows, with NULLs left out (0 for none, which is
\* what `SUM(...) or 0` makes of NULL).
RECURSIVE SumCol(_, _, _)
SumCol(st, idx, col) ==
    IF idx = {} THEN 0
    ELSE LET i == CHOOSE j \in idx : TRUE
         IN  (IF IsNone(st[i][col]) THEN 0 ELSE Val(st[i][col]))
                + SumCol(st, idx \ {i}, col)

\* The rows of a set whose column is not NULL.
NonNull(st, idx, col) == {i \in idx : ~IsNone(st[i][col])}

\* A mean as sum and count; `AVG(...) or 0` is 0 for NULL (no value).
Mean(sum, n) == IF n = 0 THEN [sum |-> 0, n |-> 1] ELSE [sum |-> sum, n |-> n]
MeanLess(x, y) == x.sum * y.n < y.sum * x.n

\* MAX(timestamp) of a group: NULL when every timestamp of it is NULL.
MaxText(st, idx) ==
    IF NonNull(st, idx, "timestamp") = {} THEN None
    ELSE st[CHOOSE i \in NonNull(st, idx, "timestamp") :
                \A j \in NonNull(st, idx, "timestamp") :
                    TextLeq(Val(st[j].timestamp), Val(st[i].timestamp))].timestamp

\* One dict of the list get_apps returns.
AppRow(st, a) ==
    [ app_id |-> a,
      total_entries |-> Cardinality(RowsOfApp(st, a)),
      total_duration |-> SumCol(st, RowsOfApp(st, a), "duration"),
      total_words |-> SumCol(st, RowsOfApp(st, a), "numWords"),
      avg_latency |-> Mean(SumCol(st, RowsOfApp(st, a), "e2eLatency"),
                           Cardinality(NonNull(st, RowsOfApp(st, a), "e2eLatency"))),
      last_used |-> MaxText(st, RowsOfApp(st, a)) ]

\* get_apps: every order of the groups that ORDER BY total_entries DESC
\* allows.
get_apps(st) ==
    LET n == Cardinality(AppsOf(st))
    IN  {[k \in 1..n |-> AppRow(st, p[k])] : p \in
            {q \in [1..n -> AppsOf(st)] :
                /\ \A i, j \in 1..n : i # j => q[i] # q[j]
                /\ \A i, j \in 1..n : i < j =>
                     Cardinality(RowsOfApp(st, q[i])) >= Cardinality(RowsOfApp(st, q[j]))}}

\* sort_key_map.get(sort_by, "total_entries")
SortKeyOf(sort_by) ==
    CASE sort_by = "entries" -> "total_entries"
      [] sort_by = "words" -> "total_words"
      [] sort_by = "duration" -> "total_duration"
      [] sort_by = "latency" -> "avg_latency"
      [] sort_by = "last_used" -> "last_used"
      [] OTHER -> "total_entries"

\* The sort has to compare a str key (a last_used text) with the int 0 that
\* `x[sort_key] or 0` makes of None: TypeError.
AppSortRaises(apps, key) ==
    /\ key = "last_used"
    /\ \E i, j \in 1..Len(apps) : IsNone(apps[i].last_used) /\ ~IsNone(apps[j].last_used)

\* key(x) < key(y) for two keys that compare.
AppKeyLess(key, x, y) ==
    CASE key = "avg_latency" -> MeanLess(x.avg_latency, y.avg_latency)
      [] key = "last_used" ->
           ~IsNone(x.last_used) /\ ~IsNone(y.last_used)
              /\ TextLess(Val(x.last_used), Val(y.last_used))
      [] OTHER -> x[key] < y[key]

RECURSIVE InsertAppDesc(_, _, _)
InsertAppDesc(sorted, a, key) ==
    IF sorted = <<>> THEN <<a>>
    ELSE IF AppKeyLess(key, Head(sorted), a)
         THEN <<a>> \o sorted
         ELSE <<Head(sorted)>> \o InsertAppDesc(Tail(sorted), a, key)

\* apps.sort(key=lambda x: x[sort_key] or 0, reverse=True): stable,
\* descending.
RECURSIVE SortApps(_, _)
SortApps(apps, key) ==
    IF apps = <<>> THEN <<>>
    ELSE InsertAppDesc(SortApps(SubSeq(apps, 1, Len(apps) - 1), key),
                       apps[Len(apps)], key)

\* [app for app in apps if app["total_entries"] >= min_entries]
RECURSIVE AtLeast(_, _)
AtLeast(apps, min_entries) ==
    IF apps = <<>> THEN <<>>
    ELSE IF Head(apps).total_entries >= min_entries
         THEN <<Head(apps)>> \o AtLeast(Tail(apps), min_entries)
         ELSE AtLeast(Tail(apps), min_entries)

\* apps[:limit]
Prefix(apps, limit) ==
    IF limit >= 0 THEN SubSeq(apps, 1, Min(limit, Len(apps)))
    ELSE SubSeq(apps, 1, Len(apps) + limit)

\* WisprTools._get_app_statistics.
get_app_statistics(st, limit, sort_by, min_entries) ==
    {IF AppSortRaises(AtLeast(apps, min_entries), SortKeyOf(sort_by))
     THEN [exc |-> "TypeError", apps |-> <<>>]
     ELSE [exc |-> "",
           apps |-> Prefix(SortApps(AtLeast(apps, min_entries), SortKeyOf(sort_by)),
                           limit)]
       : apps \in get_apps(st)}

\* AppsCommand.run: the list it prints.
AppsRun(st, limit, sort_by, min_entries) ==
    {IF apps = <<>> THEN [exc |-> "", apps |-> <<>>]
     ELSE IF AppSortRaises(AtLeast(apps, min_entries), SortKeyOf(sort_by))
     THEN [exc |-> "TypeError", apps |-> <<>>]
     ELSE [exc |-> "",
           apps |-> IF limit # 0
                    THEN Prefix(SortApps(AtLeast(apps, min_entries), SortKeyOf(sort_by)),
                                limit)
                    ELSE SortApps(AtLeast(apps, min_entries), SortKeyOf(sort_by))]
       : apps \in get_apps(st)}

(***************************************************************************)
(* AppsSpec: one call of the get_app_statistics tool, or one run of the    *)
(* CLI apps command, on some store.                                        *)
(***************************************************************************)
AppLimitDefault == 20    \* limit: int = 20 / --limit default=20

AppsRows(k) ==
    { [MkRow(PosId(k), Some(<<"a">>), None, None, ts, app, Some("formatted"),
             Some(0), None)
         EXCEPT !.duration = Some(2), !.numWords = w, !.e2eLatency = Some(k)] :
        ts \in {None, Some(StoreText(<<1, 0, 1>>)), Some(StoreText(<<2, 0, 1>>))},
        app \in {None, Some(""), Some("md.obsidian"), Some("com.apple.Notes")},
        w \in {None, Some(3)} }

AppsArgs ==
    [ limit : {-1, 0, 1, AppLimitDefault},
      sort_by : {"entries", "words", "latency", "last_used", "bogus"},
      min_entries : 0..(MaxRows + 1) ]

AppsInit ==
    /\ store \in StoresOver([k \in 1..MaxRows |-> AppsRows(k)])
    /\ ServerIdle
    /\ pc = "call"
    /\ qcall = NoCall
    /\ qret = NoRet

DoAppStatistics ==
    /\ pc = "call"
    /\ \E a \in AppsArgs :
        /\ qcall' = [op |-> "get_app_statistics", args |-> a]
        /\ \E r \in get_app_statistics(store, a.limit, a.sort_by, a.min_entries) :
             qret' = [exit |-> IF r.exc = "" THEN 0 ELSE 1, error |-> r.exc,
                      apps |-> r.apps]
    /\ pc' = "returned"
    /\ UNCHANGED <<store, dbExists, line, nread, out>>

DoAppsCommand ==
    /\ pc = "call"
    /\ \E a \in AppsArgs :
        /\ qcall' = [op |-> "apps", args |-> a]
        /\ \E r \in AppsRun(store, a.limit, a.sort_by, a.min_entries) :
             qret' = [exit |-> IF r.exc = "" THEN 0 ELSE 1, error |-> r.exc,
                      apps |-> r.apps]
    /\ pc' = "returned"
    /\ UNCHANGED <<store, dbExists, line, nread, out>>

AppsNext == DoAppStatistics \/ DoAppsCommand

AppsSpec == AppsInit /\ [][AppsNext]_vars

(***************************************************************************)
(* Properties of the app statistics.                                       *)
(***************************************************************************)
\* The number of rows of the store with that app.
EntryCount(a) == Cardinality({i \in 1..Len(store) : store[i].app = Some(a)})

\* The apps the result lists.
ListedApps == {qret.apps[k].app_id : k \in 1..Len(qret.apps)}

\* C12: for every store and threshold m, the app-statistics result leaves
\* out every app with fewer than m entries and lists every app with m
\* entries or more.
C12_MinEntriesBoundary ==
    (pc = "returned" /\ qcall.op \in {"get_app_statistics", "apps"}) =>
        \A a \in AppsOf(store) :
            (a \in ListedApps) <=> (EntryCount(a) >= qcall.args.min_entries)

(***************************************************************************)
(* EntrySpec: the derived properties of one TranscriptEntry, read from     *)
(* the entry made of some row.                                             *)
(***************************************************************************)
EntryTexts(c) == {None, Some(<<>>), Some(<<c>>)}

EntryRows ==
    { [MkRow(PosId(1), asr, fmt, edt, Some(StoreText(<<1, 0, 1>>)),
             Some("md.obsidian"), status, Some(0), None)
         EXCEPT !.numWords = w, !.averageLogProb = conf] :
        asr \in EntryTexts("a"), fmt \in EntryTexts("b"), edt \in EntryTexts("c"),
        status \in {None, Some("formatted"), Some("empty"), Some("dismissed")},
        w \in {None, Some(0), Some(3)},
        conf \in {None, Some(0), Some(7), Some(-3)} }

EntryInit ==
    /\ store \in {<<r>> : r \in EntryRows}
    /\ ServerIdle
    /\ pc = "call"
    /\ qcall = NoCall
    /\ qret = NoRet

ReadDisplayText ==
    /\ pc = "call"
    /\ qcall' = [op |-> "display_text", entry |-> RowToEntry(store[1])]
    /\ qret' = [value |-> display_text(RowToEntry(store[1]))]
    /\ pc' = "returned"
    /\ UNCHANGED <<store, dbExists, line, nread, out>>

ReadQualityScore ==
    /\ pc = "call"
    /\ qcall' = [op |-> "quality_score", entry |-> RowToEntry(store[1])]
    /\ qret' = [value |-> quality_score(RowToEntry(store[1]))]
    /\ pc' = "returned"
    /\ UNCHANGED <<store, dbExists, line, nread, out>>

ReadHasAudio ==
    /\ pc = "call"
    /\ qcall' = [op |-> "has_audio", entry |-> RowToEntry(store[1])]
    /\ qret' = [value |-> has_audio(RowToEntry(store[1]))]
    /\ pc' = "returned"
    /\ UNCHANGED <<store, dbExists, line, nread, out>>

EntryNext == ReadDisplayText \/ ReadQualityScore \/ ReadHasAudio

EntrySpec == EntryInit /\ [][EntryNext]_vars

(***************************************************************************)
(* Properties of the derived fields.                                       *)
(***************************************************************************)
\* A text field that is set and not the empty string.
NonEmpty(o) == Len(o) = 1 /\ Len(o[1]) > 0

\* The three text fields of an entry.
TextsOf(e) == <<e.edited_text, e.formatted_text, e.asr_text>>

\* C13: display_text is the edited text if that is non-empty, else the
\* formatted text if that is non-empty, else the raw (asr) text if that is
\* non-empty, else the empty string; entries that agree on the three texts
\* have the same display_text, whatever their other fields.
C13_DisplayText ==
    (pc = "returned" /\ qcall.op = "display_text") =>
        /\ NonEmpty(qcall.entry.edited_text) => qret.value = qcall.entry.edited_text[1]
        /\ (~NonEmpty(qcall.entry.edited_text) /\ NonEmpty(qcall.entry.formatted_text))
              => qret.value = qcall.entry.formatted_text[1]
        /\ (~NonEmpty(qcall.entry.edited_text) /\ ~NonEmpty(qcall.entry.formatted_text)
              /\ NonEmpty(qcall.entry.asr_text))
              => qret.value = qcall.entry.asr_text[1]
        /\ (~NonEmpty(qcall.entry.edited_text) /\ ~NonEmpty(qcall.entry.formatted_text)
              /\ ~NonEmpty(qcall.entry.asr_text))
              => qret.value = <<>>
        /\ \A r \in EntryRows :
              TextsOf(RowToEntry(r)) = TextsOf(qcall.entry)
                 => display_text(RowToEntry(r)) = qret.value

\* Witness of C13: display_text fell through an empty edited text and an
\* unset formatted text to the raw text.
C13_Witness ==
    /\ pc = "returned" /\ qcall.op = "display_text"
    /\ qcall.entry.edited_text = Some(<<>>)
    /\ qcall.entry.formatted_text = None
    /\ qret.value = <<"a">>

\* The value quality_score is to have by the rule of the record model.
ExpectedScore(e) ==
    IF Len(e.confidence) = 1 THEN e.confidence[1]
    ELSE IF e.status = <<"formatted">> /\ Len(e.num_words) = 1 /\ e.num_words[1] > 0
    THEN ScoreFormatted
    ELSE IF e.status = <<"empty">>
              \/ (~NonEmpty(e.edited_text) /\ ~NonEmpty(e.formatted_text)
                    /\ ~NonEmpty(e.asr_text))
    THEN ScoreEmpty
    ELSE ScoreDefault

\* C14: quality_score is the confidence whenever one is set, a confidence of
\* 0 included; with none set it is 0.8 for status `formatted` with a word
\* count above 0, else 0.1 for status `empty` or an empty display text, else
\* 0.5.
C14_QualityScore ==
    (pc = "returned" /\ qcall.op = "quality_score") =>
        qret.value = ExpectedScore(qcall.entry)

\* Witness of C14: the score of an entry whose confidence is 0, though its
\* status and word count would make it 0.8.
C14_Witness ==
    /\ pc = "returned" /\ qcall.op = "quality_score"
    /\ qcall.entry.confidence = Some(0)
    /\ qcall.entry.status = Some("formatted")
    /\ qcall.entry.num_words = Some(3)
    /\ qret.value = 0

(***************************************************************************)
(* DateParser (utils/date_parser.py).                                      *)
(*  An input is a text.  An instant is <<day, minute, second>>: the        *)
(*  proleptic Gregorian ordinal of its date (1 for 0001-01-01, the date of *)
(*  datetime.min), the minute of its day and the second of that minute;    *)
(*  fractions of a second are left out.                                    *)
(***************************************************************************)
DigitChars == <<"0", "1", "2", "3", "4", "5", "6", "7", "8", "9">>
IsDigitChar(c) == \E i \in 1..10 : DigitChars[i] = c
DigitValue(c) == (CHOOSE i \in 1..10 : DigitChars[i] = c) - 1

\* str.isspace of one character, as str.strip and the regex class \s see it.
IsSpace(c) == c \in {" ", "\t", "\n"}

\* int(text) of a text of digits.
RECURSIVE IntOf(_)
IntOf(t) ==
    IF t = <<>> THEN 0
    ELSE 10 * IntOf(SubSeq(t, 1, Len(t) - 1)) + DigitValue(t[Len(t)])

\* The number of leading characters of a text that satisfy a class.
RECURSIVE LeadingDigits(_)
LeadingDigits(t) ==
    IF t = <<>> \/ ~IsDigitChar(Head(t)) THEN 0 ELSE 1 + LeadingDigits(Tail(t))

RECURSIVE LeadingSpaces(_)
LeadingSpaces(t) ==
    IF t = <<>> \/ ~IsSpace(Head(t)) THEN 0 ELSE 1 + LeadingSpaces(Tail(t))

RECURSIVE TrailingSpaces(_)
TrailingSpaces(t) ==
    IF t = <<>> \/ ~IsSpace(t[Len(t)]) THEN 0
    ELSE 1 + TrailingSpaces(SubSeq(t, 1, Len(t) - 1))

Drop(t, n) == SubSeq(t, n + 1, Len(t))

\* str.strip()
Strip(t) ==
    IF LeadingSpaces(t) = Len(t) THEN <<>>
    ELSE SubSeq(t, LeadingSpaces(t) + 1, Len(t) - TrailingSpaces(t))

\* The unit alternatives of the pattern, with the hours each one stands for
\* in the timedelta of parse_relative_date (a month is 30 days, a year 365).
UnitHours ==
    [ h |-> 1, hour |-> 1, hours |-> 1,
      d |-> 24, day |-> 24, days |-> 24,
      w |-> 168, week |-> 168, weeks |-> 168,
      m |-> 720, month |-> 720, months |-> 720,
      y |-> 8760, year |-> 8760, years |-> 8760 ]

UnitWords == DOMAIN UnitHours

\* re.match(r'^(\d+)\s*(h|hour|...|years)$', s): None, or <<amount, unit>>.
MatchRelative(s) ==
    LET nd == LeadingDigits(s)
        rest == Drop(Drop(s, nd), LeadingSpaces(Drop(s, nd)))
    IN  IF nd > 0 /\ Join(rest) \in UnitWords
        THEN Some(<<IntOf(SubSeq(s, 1, nd)), Join(rest)>>)
        ELSE None

\* now - timedelta(hours=h): OverflowError when the result lies before
\* datetime.min.
MinusHours(now, h) ==
    LET total == (now[1] - 1) * 24 + (now[2] \div 60) - h
    IN  IF total < 0 THEN [exc |-> "OverflowError", value |-> None]
        ELSE [exc |-> "",
              value |-> Some(<<(total \div 24) + 1,
                               (total % 24) * 60 + (now[2] % 60), now[3]>>)]

\* DateParser.parse_relative_date, called at the instant now.
parse_relative_date(date_string, now) ==
    IF date_string = <<>> THEN [exc |-> "", value |-> None]
    ELSE LET m == MatchRelative(Lower(Strip(date_string)))
         IN  IF IsNone(m) THEN [exc |-> "", value |-> None]
             ELSE MinusHours(now, Val(m)[1] * UnitHours[Val(m)[2]])

\* The format patterns of parse_absolute_date, in the order tried; "%x" is
\* a directive of strptime, any other element a literal character.
DateFormats ==
    << <<"%Y", "-", "%m", "-", "%d">>,
       <<"%Y", "-", "%m", "-", "%d", " ", "%H", ":", "%M", ":", "%S">>,
       <<"%Y", "-", "%m", "-", "%d", " ", "%H", ":", "%M">>,
       <<"%m", "/", "%d", "/", "%Y">>,
       <<"%m", "/", "%d", "/", "%Y", " ", "%H", ":", "%M", ":", "%S">>,
       <<"%m", "/", "%d", "/", "%Y", " ", "%H", ":", "%M">>,
       <<"%d", "/", "%m", "/", "%Y">>,
       <<"%d", "/", "%m", "/", "%Y", " ", "%H", ":", "%M", ":", "%S">>,
       <<"%d", "/", "%m", "/", "%Y", " ", "%H", ":", "%M">>,
       <<"%Y", "-", "%m", "-", "%d", "T", "%H", ":", "%M", ":", "%S">>,
       <<"%Y", "-", "%m", "-", "%d", "T", "%H", ":", "%M", ":", "%S", ".", "%f">>,
       <<"%Y", "-", "%m", "-", "%d", "T", "%H", ":", "%M", ":", "%S", "Z">>,
       <<"%Y", "-", "%m", "-", "%d", "T", "%H", ":", "%M", ":", "%S", ".", "%f", "Z">> >>

IsDirective(x) == x \in {"%Y", "%m", "%d", "%H", "%M", "%S", "%f"}

\* The values strptime starts from: 1900-01-01 00:00:00.
StrptimeDefaults ==
    [ Y |-> 1900, m |-> 1, d |-> 1, H |-> 0, M |-> 0, S |-> 0, f |-> 0 ]

\* The field a directive sets.
FieldOf(dir) ==
    CASE dir = "%Y" -> "Y" [] dir = "%m" -> "m" [] dir = "%d" -> "d"
      [] dir = "%H" -> "H" [] dir = "%M" -> "M" [] dir = "%S" -> "S"
      [] OTHER -> "f"

\* The two-digit values the regular expression of a directive accepts.
TwoDigitRange(dir) ==
    CASE dir = "%m" -> 1..12
      [] dir = "%d" -> 1..31
      [] dir = "%H" -> 0..23
      [] dir = "%M" -> 0..59
      [] dir = "%S" -> 0..61
      [] OTHER -> {}

\* The lengths of the prefixes of a text that the regular expression of a
\* directive matches, in the order of its alternatives.
Candidates(dir, t) ==
    LET n == LeadingDigits(t)
    IN  IF dir = "%Y" THEN (IF n >= 4 THEN <<4>> ELSE <<>>)
        ELSE IF dir = "%f"
        THEN [k \in 1..Min(n, 6) |-> Min(n, 6) + 1 - k]
        ELSE (IF n >= 2 /\ IntOf(SubSeq(t, 1, 2)) \in TwoDigitRange(dir)
              THEN <<2>> ELSE <<>>)
             \o (IF n >= 1 /\ (dir \in {"%H", "%M", "%S"} \/ t[1] # "0")
                 THEN <<1>> ELSE <<>>)
             \o (IF dir = "%d" /\ Len(t) >= 2 /\ t[1] = " "
                    /\ IsDigitChar(t[2]) /\ t[2] # "0"
                 THEN <<2>> ELSE <<>>)

\* int() of the matched group: a " " before the digit of a day is skipped.
GroupValue(g) == IF g # <<>> /\ g[1] = " " THEN IntOf(Tail(g)) ELSE IntOf(g)

\* The match of a format against a whole text: None, or the fields found.
RECURSIVE MatchFormat(_, _, _)
RECURSIVE TryCandidates(_, _, _, _)
MatchFormat(fmt, t, acc) ==
    IF fmt = <<>> THEN (IF t = <<>> THEN Some(acc) ELSE None)
    ELSE IF IsDirective(fmt[1]) THEN TryCandidates(Candidates(fmt[1], t), fmt, t, acc)
    ELSE IF fmt[1] = " "
    THEN (IF LeadingSpaces(t) = 0 THEN None
          ELSE MatchFormat(Tail(fmt), Drop(t, LeadingSpaces(t)), acc))
    ELSE IF t # <<>> /\ LowerChar(t[1]) = LowerChar(fmt[1])
    THEN MatchFormat(Tail(fmt), Tail(t), acc)
    ELSE None

TryCandidates(cands, fmt, t, acc) ==
    IF cands = <<>> THEN None
    ELSE LET r == MatchFormat(Tail(fmt), Drop(t, cands[1]),
                     [acc EXCEPT ![FieldOf(fmt[1])] = GroupValue(SubSeq(t, 1, cands[1]))])
         IN  IF ~IsNone(r) THEN r ELSE TryCandidates(Tail(cands), fmt, t, acc)

IsLeap(y) == (y % 4 = 0 /\ y % 100 # 0) \/ y % 400 = 0

DaysInMonth(y, m) ==
    IF m = 2 THEN (IF IsLeap(y) THEN 29 ELSE 28)
    ELSE IF m \in {4, 6, 9, 11} THEN 30 ELSE 31

RECURSIVE DaysBeforeMonth(_, _)
DaysBeforeMonth(y, m) ==
    IF m = 1 THEN 0 ELSE DaysBeforeMonth(y, m - 1) + DaysInMonth(y, m - 1)

\* date.toordinal()
Ordinal(y, m, d) ==
    365 * (y - 1) + ((y - 1) \div 4) - ((y - 1) \div 100) + ((y - 1) \div 400)
        + DaysBeforeMonth(y, m) + d

\* datetime(Y, m, d, H, M, S) raises ValueError for these fields.
FieldsInvalid(x) == x.Y < 1 \/ x.d > DaysInMonth(x.Y, x.m) \/ x.S > 59

\* datetime.strptime(t, fmt): None for ValueError, else the instant.
Strptime(t, fmt) ==
    LET r == MatchFormat(fmt, t, StrptimeDefaults)
    IN  IF IsNone(r) \/ FieldsInvalid(Val(r)) THEN None
        ELSE Some(<<Ordinal(Val(r).Y, Val(r).m, Val(r).d),
                    Val(r).H * 60 + Val(r).M, Val(r).S>>)

\* The loop over the formats, from the k-th one on.
RECURSIVE FirstFormat(_, _)
FirstFormat(t, k) ==
    IF k > Len(DateFormats) THEN None
    ELSE IF ~IsNone(Strptime(t, DateFormats[k])) THEN Strptime(t, DateFormats[k])
    ELSE FirstFormat(t, k + 1)

\* DateParser.parse_absolute_date
parse_absolute_date(date_string) ==
    IF date_string = <<>> THEN None ELSE FirstFormat(Strip(date_string), 1)

\* DateParser.parse_date, called at the instant now: the exception it
\* raises, or the value it returns.
parse_date(date_string, now) ==
    IF parse_relative_date(date_string, now).exc # ""
    THEN parse_relative_date(date_string, now)
    ELSE IF ~IsNone(parse_relative_date(date_string, now).value)
    THEN parse_relative_date(date_string, now)
    ELSE [exc |-> "", value |-> parse_absolute_date(date_string)]

(***************************************************************************)
(* DateSpec: one call of DateParser.parse_date.                            *)
(***************************************************************************)
\* str.upper of a text of letters, to spell the inputs.
UpperChar(c) ==
    IF \E i \in 1..26 : LowerLetters[i] = c
    THEN UpperLetters[CHOOSE i \in 1..26 : LowerLetters[i] = c]
    ELSE c
Upper(t) == [i \in 1..Len(t) |-> UpperChar(t[i])]
Capitalize(t) == [i \in 1..Len(t) |-> IF i = 1 THEN UpperChar(t[i]) ELSE t[i]]

UnitTexts ==
    { <<"h">>, <<"h", "o", "u", "r">>, <<"h", "o", "u", "r", "s">>,
      <<"d">>, <<"d", "a", "y">>, <<"d", "a", "y", "s">>,
      <<"w">>, <<"w", "e", "e", "k">>, <<"w", "e", "e", "k", "s">>,
      <<"m">>, <<"m", "o", "n", "t", "h">>, <<"m", "o", "n", "t", "h", "s">>,
      <<"y">>, <<"y", "e", "a", "r">>, <<"y", "e", "a", "r", "s">> }

AmountTexts == { <<"0">>, <<"2">>, <<"1", "2">>, <<"3", "0", "0", "0">> }

\* The relative strings of the model: surrounding and inner whitespace,
\* every unit spelling in lower, upper and capitalized letters.
RelativeInputs ==
    { pre \o n \o mid \o u \o post :
        pre \in {<<>>, <<" ">>}, n \in AmountTexts, mid \in {<<>>, <<" ">>, <<"\t">>},
        u \in UNION {{w, Upper(w), Capitalize(w)} : w \in UnitTexts},
        post \in {<<>>, <<" ">>} }

OtherInputs ==
    { <<>>, <<" ">>, <<"b", "a", "d">>, <<"n", "o", "w">>, <<"d">>, <<"3">>,
      <<"1", " ", "d", " ", "d">>, <<"1", "h", "1">>, <<"1", ".", "5", "h">>,
      <<"-", "1", "d">>, <<"1", " ", "h", "r", "s">>,
      <<"2", "0", "2", "5", "-", "0", "6", "-", "2", "0">>,
      <<"2", "0", "2", "5", "-", "6", "-", "2">>,
      <<"2", "0", "2", "5", "-", "0", "6", "-", " ", "5">>,
      <<" ", "2", "0", "2", "5", "-", "0", "6", "-", "2", "0", " ", "1", "0", ":", "3", "0">>,
      <<"2", "0", "2", "5", "-", "0", "6", "-", "2", "0", " ", "1", "0", ":", "3", "0", ":", "6", "0">>,
      <<"0", "6", "/", "2", "0", "/", "2", "0", "2", "5">>,
      <<"1", "3", "/", "0", "1", "/", "2", "0", "2", "5">>,
      <<"0", "2", "/", "3", "0", "/", "2", "0", "2", "5">>,
      <<"0", "2", "/", "2", "9", "/", "2", "0", "2", "4">>,
      <<"0", "0", "0", "0", "-", "0", "1", "-", "0", "1">>,
      <<"2", "0", "2", "5", "-", "0", "6", "-", "2", "0", "t", "1", "0", ":", "0", "0", ":", "0", "0", "z">>,
      <<"2", "0", "2", "5", "-", "0", "6", "-", "2", "0", "T", "1", "0", ":", "0", "0", ":", "0", "0", ".", "5">>,
      <<"2", "0", "2", "5", "-", "0", "6", "-", "2", "0", "1">> }

DateInputs == RelativeInputs \cup OtherInputs

\* The instants at which the call is made.
Nows == { <<Ordinal(2026, 11, 5), 59, 31>>, <<Ordinal(2024, 2, 29), 1380, 0>> }

DateInit ==
    /\ store = <<>>
    /\ ServerIdle
    /\ pc = "call"
    /\ qcall = NoCall
    /\ qret = NoRet

DoParseDate ==
    /\ pc = "call"
    /\ \E s \in DateInputs, now \in Nows :
        /\ qcall' = [op |-> "parse_date", input |-> s, now |-> now]
        /\ qret' = [exit |-> IF parse_date(s, now).exc = "" THEN 0 ELSE 1,
                    error |-> parse_date(s, now).exc,
                    value |-> parse_date(s, now).value]
    /\ pc' = "returned"
    /\ UNCHANGED <<store, dbExists, line, nread, out>>

DateNext == DoParseDate

DateSpec == DateInit /\ [][DateNext]_vars

(***************************************************************************)
(* Properties of the date parser.                                          *)
(***************************************************************************)
AllSpaces(t) == \A i \in 1..Len(t) : t[i] \in {" ", "\t", "\n"}
AllDigits(t) == t # <<>> /\ \A i \in 1..Len(t) : IsDigitChar(t[i])

\* The readings of a text under the relative grammar
\* ^\s*(\d+)\s*(unit)\s*$, letter case ignored: <<N, hours of the unit>>.
RelativeReadings(s) ==
    { <<IntOf(SubSeq(s, a + 1, b)), UnitHours[Join(Lower(SubSeq(s, c + 1, d)))]>> :
        <<a, b, c, d>> \in
          { q \in (0..Len(s)) \X (0..Len(s)) \X (0..Len(s)) \X (0..Len(s)) :
              /\ q[1] < q[2] /\ q[2] <= q[3] /\ q[3] < q[4]
              /\ AllSpaces(SubSeq(s, 1, q[1]))
              /\ AllDigits(SubSeq(s, q[1] + 1, q[2]))
              /\ AllSpaces(SubSeq(s, q[2] + 1, q[3]))
              /\ Lower(SubSeq(s, q[3] + 1, q[4])) \in UnitTexts
              /\ AllSpaces(SubSeq(s, q[4] + 1, Len(s))) } }

\* Hours from 0001-01-01 00:00 to the start of the hour of an instant.
HoursOf(x) == (x[1] - 1) * 24 + (x[2] \div 60)

\* An instant is another one minus h hours.
IsMinusHours(x, now, h) ==
    /\ HoursOf(x) = HoursOf(now) - h
    /\ x[2] % 60 = now[2] % 60
    /\ x[3] = now[3]

\* Some format of the absolute form parses the text.
MatchesAbsolute(s) ==
    \E k \in 1..Len(DateFormats) : ~IsNone(Strptime(Strip(s), DateFormats[k]))

\* C15: for every amount N and unit spelling of the relative grammar, in any
\* letter case and with optional whitespace, parse returns now minus N
\* hours, N*24 hours, N*168 hours, N*30 days or N*365 days; for an input that
\* neither the relative grammar nor an absolute format matches it returns
\* null and does not raise.
C15_ParseDate ==
    (pc = "returned" /\ qcall.op = "parse_date") =>
        /\ \A r \in RelativeReadings(qcall.input) :
             /\ qret.error = ""
             /\ ~IsNone(qret.value)
             /\ IsMinusHours(Val(qret.value), qcall.now, r[1] * r[2])
        /\ (RelativeReadings(qcall.input) = {} /\ ~MatchesAbsolute(qcall.input)) =>
             (qret.error = "" /\ IsNone(qret.value))

(***************************************************************************)
(* Properties of get_entries: the archived flag and the order.             *)
(***************************************************************************)
\* The rows of the store that satisfy a condition on their archived column,
\* in store order.
RECURSIVE RowsWithArchived(_, _)
RowsWithArchived(st, allowed) ==
    IF st = <<>> THEN <<>>
    ELSE IF Head(st).isArchived \in allowed
         THEN <<Head(st)>> \o RowsWithArchived(Tail(st), allowed)
         ELSE RowsWithArchived(Tail(st), allowed)

\* The store with every archived column set to 0.
Unarchived(st) == [i \in 1..Len(st) |-> [st[i] EXCEPT !.isArchived = Some(0)]]

\* The row of the store an entry was made of.
RowOf(e) == store[CHOOSE i \in 1..Len(store) : store[i].transcriptEntityId = e.transcript_id]

\* C16: with include_archived unset, get_entries returns exactly what the
\* other filters give on the rows whose archived column is 0 or NULL, so
\* never an archived entry; with it set, it returns what the other filters
\* give whatever the archived columns hold.
C16_ArchivedFlag ==
    (pc = "returned" /\ qcall.op = "get_entries") =>
        /\ ~qcall.args.include_archived =>
             /\ \A k \in 1..Len(qret.entries) :
                  /\ ~qret.entries[k].is_archived
                  /\ RowOf(qret.entries[k]).isArchived \in {None, Some(0)}
             /\ \E r \in get_entries(RowsWithArchived(store, {None, Some(0)}),
                                     [qcall.args EXCEPT !.include_archived = TRUE]) :
                  r.exc = qret.error /\ r.entries = qret.entries
        /\ qcall.args.include_archived =>
             \E r \in get_entries(Unarchived(store),
                                  [qcall.args EXCEPT !.include_archived = FALSE]) :
                  r.exc = qret.error /\ Ids(r.entries) = Ids(qret.entries)

\* Witness of C16: a call without the flag on a store with an archived row,
\* a row whose archived column is NULL and nothing else returned but the
\* latter.
C16_Witness ==
    /\ pc = "returned" /\ qcall.op = "get_entries"
    /\ ~qcall.args.include_archived
    /\ \E i, j \in 1..Len(store) :
         /\ store[i].isArchived = Some(1)
         /\ store[j].isArchived = None
         /\ Ids(qret.entries) = <<store[j].transcriptEntityId>>

\* C17: the list get_entries returns is in descending order of timestamp:
\* of two entries with a timestamp the one with the later instant comes
\* first, and every entry without a timestamp comes after all entries that
\* have one.
C17_DescendingOrder ==
    (pc = "returned" /\ qcall.op = "get_entries") =>
        \A i, j \in 1..Len(qret.entries) :
            i < j =>
                /\ IsNone(qret.entries[i].timestamp) => IsNone(qret.entries[j].timestamp)
                /\ (~IsNone(qret.entries[i].timestamp) /\ ~IsNone(qret.entries[j].timestamp))
                      => DtLeq(Val(qret.entries[j].timestamp), Val(qret.entries[i].timestamp))

(***************************************************************************)
(* Properties of Conversation construction.                                *)
(***************************************************************************)
\* The members of a conversation are in ascending order of timestamp, those
\* without a timestamp first.
MembersAscending(c) ==
    \A i, j \in 1..Len(c.entries) :
        i < j =>
            /\ IsNone(c.entries[j].timestamp) => IsNone(c.entries[i].timestamp)
            /\ (~IsNone(c.entries[i].timestamp) /\ ~IsNone(c.entries[j].timestamp))
                  => DtLeq(Val(c.entries[i].timestamp), Val(c.entries[j].timestamp))

\* The non-null timestamps of the members.
MemberTimes(c) ==
    {Val(c.entries[i].timestamp) :
        i \in {j \in 1..Len(c.entries) : ~IsNone(c.entries[j].timestamp)}}

\* start_time and end_time are the least and the greatest member timestamp,
\* both null when no member has one.
SpansMembers(c) ==
    IF MemberTimes(c) = {} THEN IsNone(c.start_time) /\ IsNone(c.end_time)
    ELSE /\ ~IsNone(c.start_time) /\ Val(c.start_time) \in MemberTimes(c)
         /\ ~IsNone(c.end_time) /\ Val(c.end_time) \in MemberTimes(c)
         /\ \A t \in MemberTimes(c) :
              DtLeq(Val(c.start_time), t) /\ DtLeq(t, Val(c.end_time))
         /\ DtLeq(Val(c.start_time), Val(c.end_time))

\* C18: every construction of a Conversation from entries of the store
\* succeeds, also when some have no timestamp and others a timestamp parsed
\* from the store; its members are in ascending order of timestamp with those
\* without one first, start_time is the least and end_time the greatest of
\* the members' timestamps (both null when there is none), so start_time <=
\* end_time.
C18_ConversationConstruction ==
    (pc = "returned" /\ qcall.op \in {"get_conversation_by_id", "get_conversations"}) =>
        /\ qret.error = ""
        /\ \A k \in 1..Len(qret.convs) :
             MembersAscending(qret.convs[k]) /\ SpansMembers(qret.convs[k])

(***************************************************************************)
(* The app resolver on texts: WisprTools._resolve_app_filter and the       *)
(* inline resolution of ListCommand.run, character by character.           *)
(***************************************************************************)
\* name_to_bundle: <<name, bundle id>>
name_to_bundle ==
    {
      <<<<"s", "l", "a", "c", "k">>,
        <<"c", "o", "m", ".", "t", "i", "n", "y", "s", "p", "e", "c", "k", ".", "s", "l", "a", "c", "k", "m", "a", "c", "g", "a", "p">>>>,
      <<<<"o", "b", "s", "i", "d", "i", "a", "n">>,
        <<"m", "d", ".", "o", "b", "s", "i", "d", "i", "a", "n">>>>,
      <<<<"m", "e", "s", "s", "a", "g", "e", "s">>,
        <<"c", "o", "m", ".", "a", "p", "p", "l", "e", ".", "M", "o", "b", "i", "l", "e", "S", "M", "S">>>>,
      <<<<"v", "s", "c", "o", "d", "e">>,
        <<"c", "o", "m", ".", "m", "i", "c", "r", "o", "s", "o", "f", "t", ".", "V", "S", "C", "o", "d", "e">>>>,
      <<<<"v", "s", " ", "c", "o", "d", "e">>,
        <<"c", "o", "m", ".", "m", "i", "c", "r", "o", "s", "o", "f", "t", ".", "V", "S", "C", "o", "d", "e">>>>,
      <<<<"c", "h", "r", "o", "m", "e">>,
        <<"c", "o", "m", ".", "g", "o", "o", "g", "l", "e", ".", "C", "h", "r", "o", "m", "e">>>>,
      <<<<"w", "i", "s", "p", "r">>,
        <<"c", "o", "m", ".", "e", "l", "e", "c", "t", "r", "o", "n", ".", "w", "i", "s", "p", "r", "-", "f", "l", "o", "w">>>>,
      <<<<"w", "i", "s", "p", "r", " ", "f", "l", "o", "w">>,
        <<"c", "o", "m", ".", "e", "l", "e", "c", "t", "r", "o", "n", ".", "w", "i", "s", "p", "r", "-", "f", "l", "o", "w">>>>,
      <<<<"c", "h", "a", "t", "g", "p", "t">>,
        <<"c", "o", "m", ".", "o", "p", "e", "n", "a", "i", ".", "c", "h", "a", "t">>>>,
      <<<<"s", "a", "f", "a", "r", "i">>,
        <<"c", "o", "m", ".", "a", "p", "p", "l", "e", ".", "S", "a", "f", "a", "r", "i">>>>,
      <<<<"m", "a", "i", "l">>,
        <<"c", "o", "m", ".", "a", "p", "p", "l", "e", ".", "m", "a", "i", "l">>>>,
      <<<<"n", "o", "t", "e", "s">>,
        <<"c", "o", "m", ".", "a", "p", "p", "l", "e", ".", "N", "o", "t", "e", "s">>>>
    }

\* name_to_bundle.get(key, default)
TableGet(key, default) ==
    IF \E p \in name_to_bundle : p[1] = key
    THEN (CHOOSE p \in name_to_bundle : p[1] = key)[2]
    ELSE default

\* `not app` of an Optional[str]
FalsyText(app) == IsNone(app) \/ Val(app) = <<>>

resolve_app_text_Lowered(app) ==
    IF FalsyText(app) THEN None
    ELSE IF Contains(Val(app), <<".">>) THEN app
    ELSE Some(TableGet(Lower(Val(app)), Lower(Val(app))))

\* WisprTools._resolve_app_filter
resolve_app_text(app) ==
    IF FalsyText(app) THEN None
    ELSE IF Contains(Val(app), <<".">>) THEN app
    ELSE Some(TableGet(Lower(Val(app)), Val(app)))

\* ListCommand.run: app_filter
ListAppFilter(app) ==
    IF FalsyText(app) THEN None
    ELSE IF Contains(Val(app), <<".">>) THEN Some(Val(app))
    ELSE Some(TableGet(Lower(Val(app)), Val(app)))

(***************************************************************************)
(* ResolveSpec: one resolution of an app argument by a tool or by the list *)
(* command, and then a resolution of what it returned.                     *)
(***************************************************************************)
TableNames == {p[1] : p \in name_to_bundle}
TableBundles == {p[2] : p \in name_to_bundle}

OtherNames ==
    { <<"t", "e", "x", "t", "e", "d", "i", "t">>,
      <<"T", "e", "x", "t", "E", "d", "i", "t">>,
      <<"o", "r", "g", ".", "e", "x", "a", "m", "p", "l", "e", ".", "a", "p", "p">>,
      <<"S", "l", "a", "c", "k", ".">>,
      <<"s", "l", "a", "c", "k", " ">>,
      <<"C", "h", "a", "t", "G", "P", "T">>,
      <<"V", "s", " ", "C", "o", "d", "e">>,
      <<"v", ".", "1">> }

AppInputs ==
    {None, Some(<<>>)}
        \cup {Some(n) : n \in TableNames \cup TableBundles \cup OtherNames}
        \cup {Some(Upper(n)) : n \in TableNames}
        \cup {Some(Capitalize(n)) : n \in TableNames}

ResolveVia(via, app) ==
    IF via = "tool" THEN resolve_app_text(app) ELSE ListAppFilter(app)

ResolveInit ==
    /\ store = <<>>
    /\ ServerIdle
    /\ pc = "call"
    /\ qcall = NoCall
    /\ qret = NoRet

DoToolResolve ==
    /\ pc = "call"
    /\ \E a \in AppInputs :
        /\ qcall' = [op |-> "resolve", via |-> "tool", app |-> a, origin |-> a]
        /\ qret' = [exit |-> 0, error |-> "", value |-> resolve_app_text(a)]
    /\ pc' = "returned"
    /\ UNCHANGED <<store, dbExists, line, nread, out>>

DoListResolve ==
    /\ pc = "call"
    /\ \E a \in AppInputs :
        /\ qcall' = [op |-> "resolve", via |-> "list", app |-> a, origin |-> a]
        /\ qret' = [exit |-> 0, error |-> "", value |-> ListAppFilter(a)]
    /\ pc' = "returned"
    /\ UNCHANGED <<store, dbExists, line, nread, out>>

\* The identifier a resolution returned is given as the app argument again.
DoResolveAgain ==
    /\ pc = "returned"
    /\ qcall.op = "resolve"
    /\ ~IsNone(qret.value)
    /\ qcall' = [qcall EXCEPT !.op = "resolve_again", !.app = qret.value]
    /\ qret' = [qret EXCEPT !.value = ResolveVia(qcall.via, qret.value)]
    /\ UNCHANGED <<store, dbExists, pc, line, nread, out>>

ResolveNext == DoToolResolve \/ DoListResolve \/ DoResolveAgain

ResolveSpec == ResolveInit /\ [][ResolveNext]_vars

(***************************************************************************)
(* Properties of the app resolver.                                         *)
(***************************************************************************)
\* The names of the table that equal a text when letter case is ignored.
NamesMatching(t) == {p \in name_to_bundle : Lower(p[1]) = Lower(t)}

\* C19: the resolver returns an input containing a `.` unchanged; any other
\* input it resolves to the identifier the table has for it, compared without
\* regard to letter case, and returns unchanged when the table has no such
\* name; resolving a resolved identifier again changes nothing; the list
\* command and the tools resolve every input to the same identifier.  (An
\* absent or empty app argument is no filter in both.)
C19_ToIdentifier ==
    (pc = "returned" /\ qcall.op \in {"resolve", "resolve_again"}) =>
        /\ FalsyText(qcall.app) => IsNone(qret.value)
        /\ (~FalsyText(qcall.app) /\ Contains(Val(qcall.app), <<".">>))
              => qret.value = qcall.app
        /\ (~FalsyText(qcall.app) /\ ~Contains(Val(qcall.app), <<".">>))
              => IF NamesMatching(Val(qcall.app)) = {}
                 THEN qret.value = qcall.app
                 ELSE \E p \in NamesMatching(Val(qcall.app)) : qret.value = Some(p[2])
        /\ qcall.op = "resolve_again" => qret.value = qcall.app
        /\ qret.value = resolve_app_text(qcall.app)
        /\ qret.value = ListAppFilter(qcall.app)

\* A capitalised table name was resolved to its identifier by the list
\* command, and the identifier was resolved again.
C19_Witness ==
    /\ pc = "returned"
    /\ qcall.op = "resolve_again"
    /\ qcall.via = "list"
    /\ qcall.origin = Some(<<"S", "l", "a", "c", "k">>)
    /\ qret.value = Some(<<"c", "o", "m", ".", "t", "i", "n", "y", "s", "p", "e", "c", "k", ".", "s", "l", "a", "c", "k", "m", "a", "c", "g", "a", "p">>)

(***************************************************************************)
(* Statistics: WisprParser.get_statistics, the get_database_statistics     *)
(* tool and StatsCommand.  Durations and word counts are integers here; a  *)
(* mean is the pair of its sum and its count.                              *)
(***************************************************************************)
\* The rows of `WHERE duration IS NOT NULL AND numWords IS NOT NULL`.
BothNonNull(st) ==
    {i \in 1..Len(st) : ~IsNone(st[i].duration) /\ ~IsNone(st[i].numWords)}

\* WisprParser.get_statistics
get_statistics(st) ==
    [ total_entries |-> Len(st),
      active_entries |->
          Cardinality({i \in 1..Len(st) :
                          ~IsNone(st[i].isArchived) /\ Val(st[i].isArchived) = 0}),
      archived_entries |->
          Len(st) - Cardinality({i \in 1..Len(st) :
                          ~IsNone(st[i].isArchived) /\ Val(st[i].isArchived) = 0}),
      total_duration |-> SumCol(st, BothNonNull(st), "duration"),
      total_words |-> SumCol(st, BothNonNull(st), "numWords"),
      avg_duration |-> Mean(SumCol(st, BothNonNull(st), "duration"),
                            Cardinality(BothNonNull(st))),
      avg_words |-> Mean(SumCol(st, BothNonNull(st), "numWords"),
                         Cardinality(BothNonNull(st))),
      filtered |-> FALSE ]

\* sum(e[field] or 0 for e in entries)
RECURSIVE SumField(_, _)
SumField(entries, field) ==
    IF entries = <<>> THEN 0
    ELSE (IF IsNone(Head(entries)[field]) THEN 0 ELSE Val(Head(entries)[field]))
            + SumField(Tail(entries), field)

\* [e for e in entries if e.duration is not None and e.num_words is not None]
ValidEntries(entries) ==
    SelectSeq(entries, LAMBDA e : ~IsNone(e.duration) /\ ~IsNone(e.num_words))

\* The statistics both filtered paths compute from the entries in scope.
StatsOfEntries(entries) ==
    [ total_entries |-> Len(entries),
      active_entries |-> Len(SelectSeq(entries, LAMBDA e : ~e.is_archived)),
      archived_entries |->
          Len(entries) - Len(SelectSeq(entries, LAMBDA e : ~e.is_archived)),
      total_duration |-> SumField(entries, "duration"),
      total_words |-> SumField(entries, "num_words"),
      avg_duration |-> Mean(SumField(ValidEntries(entries), "duration"),
                            Len(ValidEntries(entries))),
      avg_words |-> Mean(SumField(ValidEntries(entries), "num_words"),
                         Len(ValidEntries(entries))),
      filtered |-> TRUE ]

NoStats ==
    [ total_entries |-> 0, active_entries |-> 0, archived_entries |-> 0,
      total_duration |-> 0,
      total_words |-> 0, avg_duration |-> Mean(0, 0), avg_words |-> Mean(0, 0),
      filtered |-> FALSE ]

\* The filters of the get_entries call of the filtered paths.
StatsFilter(a) ==
    [DefaultFilter EXCEPT
        !.start_date = IF IsNone(a.since) THEN None ELSE Val(a.since),
        !.end_date = IF IsNone(a.until) THEN None ELSE Val(a.until),
        !.app = resolve_app_filter(a.app),
        !.include_archived = TRUE]

\* `if start_date or end_date or app_filter`
IsFiltered(a) ==
    \/ ~IsNone(StatsFilter(a).start_date)
    \/ ~IsNone(StatsFilter(a).end_date)
    \/ ~IsNone(StatsFilter(a).app)

\* StatsCommand._get_filtered_stats
get_filtered_stats(st, f) ==
    {IF r.exc # "" THEN [exit |-> 1, error |-> r.exc, stats |-> NoStats]
     ELSE [exit |-> 0, error |-> "", stats |-> StatsOfEntries(r.entries)]
       : r \in get_entries(st, f)}

\* WisprTools._get_database_statistics.  A since/until argument is None when
\* not given and else holds what DateParser.parse_date returns for it.
get_database_statistics(st, a) ==
    IF ~IsNone(a.since) /\ IsNone(Val(a.since))
    THEN {[exit |-> 1, error |-> "Invalid date format", stats |-> NoStats]}
    ELSE IF ~IsNone(a.until) /\ IsNone(Val(a.until))
    THEN {[exit |-> 1, error |-> "Invalid date format", stats |-> NoStats]}
    ELSE IF IsFiltered(a)
    THEN {IF r.exc # "" THEN [exit |-> 1, error |-> r.exc, stats |-> NoStats]
          ELSE [exit |-> 0, error |-> "", stats |-> StatsOfEntries(r.entries)]
            : r \in get_entries(st, StatsFilter(a))}
    ELSE {[exit |-> 0, error |-> "", stats |-> get_statistics(st)]}

\* StatsCommand.run: the statistics it prints.
StatsRun(st, a) ==
    IF ~IsNone(a.since) /\ IsNone(Val(a.since))
    THEN {[exit |-> 1, error |-> "Invalid date format", stats |-> NoStats]}
    ELSE IF ~IsNone(a.until) /\ IsNone(Val(a.until))
    THEN {[exit |-> 1, error |-> "Invalid date format", stats |-> NoStats]}
    ELSE IF IsFiltered(a)
    THEN get_filtered_stats(st, StatsFilter(a))
    ELSE {[exit |-> 0, error |-> "", stats |-> get_statistics(st)]}

(***************************************************************************)
(* StatsSpec: one call of the get_database_statistics tool, or one run of  *)
(* the CLI stats command, on some store.                                   *)
(***************************************************************************)
StatsRows(k) ==
    { [MkRow(PosId(k), Some(<<"a">>), None, None, ts, Some(app), Some("formatted"),
             arch, None)
         EXCEPT !.duration = d, !.numWords = w] :
        ts \in {None, Some(StoreText(<<2, 0, 1>>))},
        app \in {"md.obsidian", "com.apple.Notes"},
        arch \in {None, Some(0), Some(1)},
        d \in {None, Some(2 * k)},
        w \in {None, Some(3)} }

StatsArgs ==
    [ since : {None, Some(None), Some(Some(<<1, 0, 0>>))},
      until : {None, Some(None)},
      app : {None, Some(""), Some("Obsidian"), Some("com.apple.Notes")} ]

StatsInit ==
    /\ store \in StoresOver([k \in 1..MaxRows |-> StatsRows(k)])
    /\ ServerIdle
    /\ pc = "call"
    /\ qcall = NoCall
    /\ qret = NoRet

DoDatabaseStatistics ==
    /\ pc = "call"
    /\ \E a \in StatsArgs :
        /\ qcall' = [op |-> "get_database_statistics", args |-> a]
        /\ qret' \in get_database_statistics(store, a)
    /\ pc' = "returned"
    /\ UNCHANGED <<store, dbExists, line, nread, out>>

DoStatsCommand ==
    /\ pc = "call"
    /\ \E a \in StatsArgs :
        /\ qcall' = [op |-> "stats", args |-> a]
        /\ qret' \in StatsRun(store, a)
    /\ pc' = "returned"
    /\ UNCHANGED <<store, dbExists, line, nread, out>>

StatsNext == DoDatabaseStatistics \/ DoStatsCommand

StatsSpec == StatsInit /\ [][StatsNext]_vars

(***************************************************************************)
(* Properties of the statistics.                                           *)
(***************************************************************************)
\* The rows in scope of a statistics call: all rows, or those its filters
\* select.
InScope(st, a) ==
    IF IsFiltered(a) THEN {i \in 1..Len(st) : RowMatches(st[i], StatsFilter(a))}
    ELSE 1..Len(st)

MeanEq(x, y) == x.sum * y.n = y.sum * x.n

\* C20: in the result of a statistics call, global or filtered, total
\* duration and total words are the sums of duration and word count over all
\* entries in scope, a null counting as 0, and average duration and average
\* words are the means over the entries in scope that have both a duration
\* and a word count (0 when there are none).
C20_TotalsAndAverages ==
    (pc = "returned" /\ qcall.op \in {"get_database_statistics", "stats"}
        /\ qret.exit = 0) =>
        LET scope == InScope(store, qcall.args)
            valid == scope \cap BothNonNull(store)
        IN  /\ qret.stats.total_duration = SumCol(store, scope, "duration")
            /\ qret.stats.total_words = SumCol(store, scope, "numWords")
            /\ MeanEq(qret.stats.avg_duration,
                      Mean(SumCol(store, valid, "duration"), Cardinality(valid)))
            /\ MeanEq(qret.stats.avg_words,
                      Mean(SumCol(store, valid, "numWords"), Cardinality(valid)))

(***************************************************************************)
(* TranscriptEntry.app_name: the identifier-to-name table.                 *)
(***************************************************************************)
\* app_mappings: <<bundle id, display name>>
app_mappings ==
    {
      <<<<"c", "o", "m", ".", "t", "i", "n", "y", "s", "p", "e", "c", "k", ".", "s", "l", "a", "c", "k", "m", "a", "c", "g", "a", "p">>,
        <<"S", "l", "a", "c", "k">>>>,
      <<<<"m", "d", ".", "o", "b", "s", "i", "d", "i", "a", "n">>,
        <<"O", "b", "s", "i", "d", "i", "a", "n">>>>,
      <<<<"c", "o", "m", ".", "a", "p", "p", "l", "e", ".", "M", "o", "b", "i", "l", "e", "S", "M", "S">>,
        <<"M", "e", "s", "s", "a", "g", "e", "s">>>>,
      <<<<"c", "o", "m", ".", "m", "i", "c", "r", "o", "s", "o", "f", "t", ".", "V", "S", "C", "o", "d", "e">>,
        <<"V", "S", " ", "C", "o", "d", "e">>>>,
      <<<<"c", "o", "m", ".", "g", "o", "o", "g", "l", "e", ".", "C", "h", "r", "o", "m", "e">>,
        <<"C", "h", "r", "o", "m", "e">>>>,
      <<<<"c", "o", "m", ".", "e", "l", "e", "c", "t", "r", "o", "n", ".", "w", "i", "s", "p", "r", "-", "f", "l", "o", "w">>,
        <<"W", "i", "s", "p", "r", " ", "F", "l", "o", "w">>>>,
      <<<<"c", "o", "m", ".", "o", "p", "e", "n", "a", "i", ".", "c", "h", "a", "t">>,
        <<"C", "h", "a", "t", "G", "P", "T">>>>,
      <<<<"c", "o", "m", ".", "a", "p", "p", "l", "e", ".", "S", "a", "f", "a", "r", "i">>,
        <<"S", "a", "f", "a", "r", "i">>>>,
      <<<<"c", "o", "m", ".", "a", "p", "p", "l", "e", ".", "m", "a", "i", "l">>,
        <<"M", "a", "i", "l">>>>,
      <<<<"c", "o", "m", ".", "a", "p", "p", "l", "e", ".", "N", "o", "t", "e", "s">>,
        <<"N", "o", "t", "e", "s">>>>,
      <<<<"c", "o", "m", ".", "a", "p", "p", "l", "e", ".", "T", "e", "x", "t", "E", "d", "i", "t">>,
        <<"T", "e", "x", "t", "E", "d", "i", "t">>>>
    }

\* app_mappings.get(key, default)
AppMappingGet(key, default) ==
    IF \E p \in app_mappings : p[1] = key
    THEN (CHOOSE p \in app_mappings : p[1] = key)[2]
    ELSE default

\* The characters of the app identifiers that the stores of the model hold
\* as atoms.
AppText(a) ==
    CASE a = "com.tinyspeck.slackmacgap" ->
           <<"c", "o", "m", ".", "t", "i", "n", "y", "s", "p", "e", "c", "k", ".", "s", "l", "a", "c", "k", "m", "a", "c", "g", "a", "p">>
      [] a = "md.obsidian" ->
           <<"m", "d", ".", "o", "b", "s", "i", "d", "i", "a", "n">>
      [] a = "com.apple.MobileSMS" ->
           <<"c", "o", "m", ".", "a", "p", "p", "l", "e", ".", "M", "o", "b", "i", "l", "e", "S", "M", "S">>
      [] a = "com.microsoft.VSCode" ->
           <<"c", "o", "m", ".", "m", "i", "c", "r", "o", "s", "o", "f", "t", ".", "V", "S", "C", "o", "d", "e">>
      [] a = "com.google.Chrome" ->
           <<"c", "o", "m", ".", "g", "o", "o", "g", "l", "e", ".", "C", "h", "r", "o", "m", "e">>
      [] a = "com.electron.wispr-flow" ->
           <<"c", "o", "m", ".", "e", "l", "e", "c", "t", "r", "o", "n", ".", "w", "i", "s", "p", "r", "-", "f", "l", "o", "w">>
      [] a = "com.openai.chat" ->
           <<"c", "o", "m", ".", "o", "p", "e", "n", "a", "i", ".", "c", "h", "a", "t">>
      [] a = "com.apple.Safari" ->
           <<"c", "o", "m", ".", "a", "p", "p", "l", "e", ".", "S", "a", "f", "a", "r", "i">>
      [] a = "com.apple.mail" ->
           <<"c", "o", "m", ".", "a", "p", "p", "l", "e", ".", "m", "a", "i", "l">>
      [] a = "com.apple.Notes" ->
           <<"c", "o", "m", ".", "a", "p", "p", "l", "e", ".", "N", "o", "t", "e", "s">>
      [] a = "com.apple.TextEdit" ->
           <<"c", "o", "m", ".", "a", "p", "p", "l", "e", ".", "T", "e", "x", "t", "E", "d", "i", "t">>
      [] a = "org.example.app" ->
           <<"o", "r", "g", ".", "e", "x", "a", "m", "p", "l", "e", ".", "a", "p", "p">>
      [] OTHER -> <<>>

\* TranscriptEntry.app_name
app_name(e) ==
    IF ~TruthyStr(e.app) THEN <<"U", "n", "k", "n", "o", "w", "n">>
    ELSE AppMappingGet(AppText(Val(e.app)), AppText(Val(e.app)))

(***************************************************************************)
(* CollectCommand: the daily word collection.                              *)
(***************************************************************************)
\* text.replace(".", " ") ... .replace(":", " ") of the raw format
RawPunctuation == {".", ",", "!", "?", "(", ")", ";", ":"}
ReplacePunctuation(t) ==
    [i \in 1..Len(t) |-> IF t[i] \in RawPunctuation THEN " " ELSE t[i]]

\* The number of leading characters of a text that are not whitespace.
RECURSIVE LeadingWord(_)
LeadingWord(t) ==
    IF t = <<>> \/ IsSpace(Head(t)) THEN 0 ELSE 1 + LeadingWord(Tail(t))

\* str.split()
RECURSIVE SplitWords(_)
SplitWords(t) ==
    IF t = <<>> THEN <<>>
    ELSE IF IsSpace(Head(t)) THEN SplitWords(Tail(t))
    ELSE <<SubSeq(t, 1, LeadingWord(t))>> \o SplitWords(Drop(t, LeadingWord(t)))

\* sep.join(parts)
RECURSIVE JoinWith(_, _)
JoinWith(sep, parts) ==
    IF parts = <<>> THEN <<>>
    ELSE IF Len(parts) = 1 THEN parts[1]
    ELSE parts[1] \o sep \o JoinWith(sep, Tail(parts))

\* The line of one entry in the raw format: <<>> when the entry gives none.
RawWords(e) == JoinWith(<<" ">>, SplitWords(ReplacePunctuation(Strip(display_text(e)))))

\* The raw format without the `if words:` test.
generate_file_content_KeepsEmpty(entries) ==
    JoinWith(<<"\n">>, [k \in 1..Len(entries) |-> RawWords(entries[k])])

\* CollectCommand._generate_file_content, raw format
generate_file_content(entries) ==
    JoinWith(<<"\n">>,
             SelectSeq([k \in 1..Len(entries) |-> RawWords(entries[k])],
                       LAMBDA w : w # <<>>))

\* Entries with fewer words than this are short.
ShortWords == 5

NoSpeechStatuses == {"empty", "no_audio", "dismissed"}

\* One pass of the loop of _filter_entries: the entry is kept.
Kept(e, a) ==
    /\ display_text(e) # <<>> /\ Strip(display_text(e)) # <<>>
    /\ ~(TruthyInt(e.num_words) /\ Val(e.num_words) < a.min_words)
    /\ ~(a.exclude_short /\ TruthyInt(e.num_words) /\ Val(e.num_words) < ShortWords)
    /\ ~(a.exclude_apps # <<>>
           /\ \E k \in 1..Len(a.exclude_apps) :
                Contains(Lower(app_name(e)), Lower(a.exclude_apps[k])))
    /\ ~(~IsNone(e.status) /\ Val(e.status) \in NoSpeechStatuses)

\* CollectCommand._filter_entries
filter_entries(entries, a) == SelectSeq(entries, LAMBDA e : Kept(e, a))

\* entry.timestamp.strftime("%Y-%m-%d"): the day of the model's datetime.
DateOf(e) == Val(e.timestamp)[1]

\* CollectCommand._group_by_date: the dates in ascending order, each with
\* its entries in the order given.
RECURSIVE AscendingDates(_)
AscendingDates(ds) ==
    IF ds = {} THEN <<>>
    ELSE LET d == CHOOSE x \in ds : \A y \in ds : x <= y
         IN  <<d>> \o AscendingDates(ds \ {d})

group_by_date(entries) ==
    LET dated == SelectSeq(entries, LAMBDA e : ~IsNone(e.timestamp))
        ds == AscendingDates({DateOf(dated[k]) : k \in 1..Len(dated)})
    IN  [i \in 1..Len(ds) |->
            [date |-> ds[i],
             entries |-> SelectSeq(dated, LAMBDA e : DateOf(e) = ds[i])]]

\* The loop over daily_data: the files written.  A file that exists is
\* skipped unless --overwrite is given.
FilesWritten(groups, a) ==
    LET todo == SelectSeq(groups, LAMBDA g : ~(g.date \in a.existing /\ ~a.overwrite))
    IN  [i \in 1..Len(todo) |->
            [date |-> todo[i].date,
             entries |-> todo[i].entries,
             content |-> generate_file_content(todo[i].entries)]]

\* The arguments of the get_entries call of CollectCommand.run.
CollectFilter(a) ==
    [DefaultFilter EXCEPT
        !.start_date = a.since,
        !.end_date = IF IsNone(a.until) THEN None ELSE Val(a.until),
        !.app = resolve_app_filter(a.app),
        !.include_archived = FALSE]

\* CollectCommand.run with --format raw and an output directory that
\* exists.  since holds what DateParser.parse_date returns for --since
\* (None or a datetime); until is None when not given and else holds what
\* parse_date returns for it.
CollectRun(st, a) ==
    IF IsNone(a.since)
    THEN {[exit |-> 1, error |-> "Invalid date format", queried |-> FALSE, files |-> <<>>]}
    ELSE IF ~IsNone(a.until) /\ IsNone(Val(a.until))
    THEN {[exit |-> 1, error |-> "Invalid date format", queried |-> FALSE, files |-> <<>>]}
    ELSE {IF r.exc # ""
          THEN [exit |-> 1, error |-> r.exc, queried |-> TRUE, files |-> <<>>]
          ELSE [exit |-> 0, error |-> "", queried |-> TRUE,
                files |-> FilesWritten(group_by_date(filter_entries(r.entries, a)), a)]
            : r \in get_entries(st, CollectFilter(a))}

(***************************************************************************)
(* CollectRawSpec: one run of `collect --format raw` with the default      *)
(* filters, on stores whose entries differ in text and timestamp.          *)
(***************************************************************************)
RawTexts ==
    { <<"H", "e", "l", "l", "o", ",", " ", "w", "o", "r", "l", "d", "!">>,
      <<"T", "e", "s", "t", "i", "n", "g", ".">>,
      <<".", ".", ".">>,
      <<" ", "a", "\t", "(", "b", ")", ";", "c", ":", " ">>,
      <<"o", "k", "\n", "y", "e", "s", "?">> }

CollectRawRows(k) ==
    { [MkRow(PosId(k), Some(t), None, None, ts, Some("md.obsidian"),
             Some("formatted"), Some(0), None)
         EXCEPT !.numWords = Some(3)] :
        t \in RawTexts,
        ts \in {None, Some(StoreText(<<2, 0, 1>>)), Some(StoreText(<<2, 1, 1>>)),
                Some(StoreText(<<3, 0, 1>>))} }

CollectDefaults ==
    [ since |-> Some(<<1, 0, 0>>), until |-> None, app |-> None, min_words |-> 1,
      exclude_short |-> FALSE, exclude_apps |-> <<>>, overwrite |-> FALSE,
      existing |-> {} ]

CollectRawArgs ==
    { [CollectDefaults EXCEPT !.overwrite = o, !.existing = x] :
        o \in BOOLEAN, x \in {{}, {2}} }

CollectRawInit ==
    /\ store \in StoresOver([k \in 1..MaxRows |-> CollectRawRows(k)])
    /\ ServerIdle
    /\ pc = "call"
    /\ qcall = NoCall
    /\ qret = NoRet

DoCollectRaw ==
    /\ pc = "call"
    /\ \E a \in CollectRawArgs :
        /\ qcall' = [op |-> "collect", args |-> a]
        /\ qret' \in CollectRun(store, a)
    /\ pc' = "returned"
    /\ UNCHANGED <<store, dbExists, line, nread, out>>

CollectRawNext == DoCollectRaw

CollectRawSpec == CollectRawInit /\ [][CollectRawNext]_vars

(***************************************************************************)
(* Properties of the raw output of collect.                                *)
(***************************************************************************)
\* A text with every character of .,!?();: replaced by a space, whitespace
\* runs collapsed to single spaces, and trimmed.
CleanLine(t) == JoinWith(<<" ">>, SplitWords(ReplacePunctuation(t)))

\* A content without empty lines and without a trailing newline.
NoEmptyLines(c) ==
    /\ c # <<>> => (c[1] # "\n" /\ c[Len(c)] # "\n")
    /\ \A i \in 1..(Len(c) - 1) : ~(c[i] = "\n" /\ c[i + 1] = "\n")

\* C21 as stated: the raw content of a date is exactly the newline-joined
\* sequence of one line per surviving entry of the date, each line the
\* entry's display text with the punctuation replaced by spaces, whitespace
\* collapsed and trimmed; there are no empty lines and no trailing newline.
C21_OneLinePerEntry ==
    (pc = "returned" /\ qcall.op = "collect" /\ qret.exit = 0) =>
        \A i \in 1..Len(qret.files) :
            /\ qret.files[i].content =
                 JoinWith(<<"\n">>,
                          [k \in 1..Len(qret.files[i].entries) |->
                              CleanLine(display_text(qret.files[i].entries[k]))])
            /\ NoEmptyLines(qret.files[i].content)

\* C21, amended: the raw content of a date is exactly the newline-joined
\* sequence of one line per surviving entry of the date whose cleaned text
\* is not empty (an entry of punctuation only gives no line), each line the
\* entry's display text with the punctuation replaced by spaces, whitespace
\* collapsed and trimmed; there are no empty lines and no trailing newline.
C21_OneLinePerWordedEntry ==
    (pc = "returned" /\ qcall.op = "collect" /\ qret.exit = 0) =>
        \A i \in 1..Len(qret.files) :
            /\ qret.files[i].content =
                 JoinWith(<<"\n">>,
                          SelectSeq([k \in 1..Len(qret.files[i].entries) |->
                                        CleanLine(display_text(qret.files[i].entries[k]))],
                                    LAMBDA l : l # <<>>))
            /\ NoEmptyLines(qret.files[i].content)

\* A file was written for a date with two surviving entries, one of them of
\* punctuation only, and holds the one line of the other.
C21_Witness ==
    /\ pc = "returned"
    /\ qcall.op = "collect"
    /\ qret.exit = 0
    /\ \E i \in 1..Len(qret.files) :
        /\ Len(qret.files[i].entries) = 2
        /\ CleanLine(display_text(qret.files[i].entries[1])) = <<>>
        /\ qret.files[i].content = <<"H", "e", "l", "l", "o", " ", "w", "o", "r", "l", "d">>

(***************************************************************************)
(* TranscriptEntry.user_context and TranscriptEntry.to_dict.               *)
(***************************************************************************)
\* The keys user_context reads, each with the key it writes.
ContextKeys ==
    <<[from |-> "user", to |-> "user"],
      [from |-> "axText", to |-> "accessibility_text"],
      [from |-> "activeUrl", to |-> "active_url"]>>

\* `key in data`: a TypeError for a value that is no container.
KeyIn(key, data) ==
    CASE data.kind = "object" -> [exc |-> "", value |-> \E p \in data.pairs : p[1] = key]
      [] data.kind = "array" -> [exc |-> "", value |-> key \in data.elems]
      [] data.kind \in {"number", "true", "null"} -> [exc |-> "TypeError", value |-> FALSE]

\* data[key], after `key in data` was true: a TypeError for an array.
Subscript(data, key) ==
    IF data.kind = "object"
    THEN [exc |-> "", value |-> (CHOOSE p \in data.pairs : p[1] = key)[2]]
    ELSE [exc |-> "TypeError", value |-> ""]

\* The three `if key in data: context[...] = data[key]` statements, from the
\* n-th on, with the context built so far.
RECURSIVE Extract(_, _, _)
Extract(data, n, context) ==
    IF n > Len(ContextKeys) THEN [exc |-> "", value |-> context]
    ELSE IF KeyIn(ContextKeys[n].from, data).exc # ""
    THEN [exc |-> KeyIn(ContextKeys[n].from, data).exc, value |-> {}]
    ELSE IF ~KeyIn(ContextKeys[n].from, data).value
    THEN Extract(data, n + 1, context)
    ELSE IF Subscript(data, ContextKeys[n].from).exc # ""
    THEN [exc |-> Subscript(data, ContextKeys[n].from).exc, value |-> {}]
    ELSE Extract(data, n + 1,
                 context \cup {<<ContextKeys[n].to,
                                 Subscript(data, ContextKeys[n].from).value>>})

\* TranscriptEntry.user_context: the context map as a set of <<key, value>>.
user_context(e) ==
    IF ~JvTruthy(e.additional_context) THEN [exc |-> "", value |-> {}]
    ELSE IF e.additional_context.kind = "string"
    THEN IF ~ContextLoads(e.additional_context.text).ok
         THEN [exc |-> "", value |-> {}]
         ELSE Extract(ContextLoads(e.additional_context.text).value, 1, {})
    ELSE Extract(e.additional_context, 1, {})

\* TranscriptEntry.to_dict
to_dict(e) ==
    IF user_context(e).exc # "" THEN [exc |-> user_context(e).exc, value |-> <<>>]
    ELSE [exc |-> "",
          value |->
            [ transcript_id |-> e.transcript_id,
              asr_text |-> e.asr_text,
              formatted_text |-> e.formatted_text,
              edited_text |-> e.edited_text,
              timestamp |-> IF IsNone(e.timestamp) THEN None
                            ELSE Some(IsoFormat(Val(e.timestamp))),
              app |-> e.app,
              app_name |-> app_name(e),
              duration |-> e.duration,
              num_words |-> e.num_words,
              status |-> e.status,
              conversation_id |-> e.conversation_id,
              e2e_latency |-> e.e2e_latency,
              confidence |-> e.confidence,
              is_archived |-> e.is_archived,
              display_text |-> display_text(e),
              quality_score |-> quality_score(e),
              has_audio |-> has_audio(e),
              user_context |-> user_context(e).value ]]

(***************************************************************************)
(* ContextSpec: user_context or to_dict of the entry built from one row.   *)
(***************************************************************************)
ContextTexts ==
    { "{\"user\": \"u\", \"axText\": \"t\", \"activeUrl\": \"l\", \"app\": \"x\"}",
      "{\"user\": \"u\"}", "{\"app\": \"x\"}", "{}", "[]", "[1]", "[\"user\"]",
      "\"note\"", "\"5\"", "\"{\\\"user\\\": \\\"u\\\"}\"", "\"\"", "5", "0",
      "true", "null", "{bad", "" }

ContextRows ==
    { [MkRow(PosId(1), Some(<<"a">>), None, None, Some(StoreText(<<1, 0, 1>>)),
             app, status, Some(0), None)
         EXCEPT !.additionalContext = c] :
        app \in {Some("md.obsidian"), None},
        status \in {Some("formatted"), Some("empty")},
        c \in {None} \cup {Some(t) : t \in ContextTexts} }

ContextInit ==
    /\ store \in {<<r>> : r \in ContextRows}
    /\ ServerIdle
    /\ pc = "call"
    /\ qcall = NoCall
    /\ qret = NoRet

ReadUserContext ==
    /\ pc = "call"
    /\ qcall' = [op |-> "user_context", payload |-> store[1].additionalContext]
    /\ qret' = [error |-> user_context(RowToEntry(store[1])).exc,
                context |-> user_context(RowToEntry(store[1])).value]
    /\ pc' = "returned"
    /\ UNCHANGED <<store, dbExists, line, nread, out>>

ReadToDict ==
    /\ pc = "call"
    /\ qcall' = [op |-> "to_dict", payload |-> store[1].additionalContext]
    /\ qret' = [error |-> to_dict(RowToEntry(store[1])).exc,
                context |-> IF to_dict(RowToEntry(store[1])).exc # "" THEN {}
                            ELSE to_dict(RowToEntry(store[1])).value.user_context]
    /\ pc' = "returned"
    /\ UNCHANGED <<store, dbExists, line, nread, out>>

ContextNext == ReadUserContext \/ ReadToDict

ContextSpec == ContextInit /\ [][ContextNext]_vars

(***************************************************************************)
(* Properties of the user context.                                         *)
(***************************************************************************)
\* The keys a context map may hold.
ProjectedKeys == {"user", "accessibility_text", "active_url"}

\* A payload that is set and that json.loads rejects.
Unparsable(o) == TruthyStr(o) /\ ~ContextLoads(Val(o)).ok

\* C24: for every additional-context payload of an entry (absent, not
\* parsable as JSON, or valid JSON of any shape), building the entry and
\* computing its user context never raises; an unparsable payload gives the
\* empty context map; the context map holds no keys but user,
\* accessibility_text and active_url, and for an object payload exactly those
\* of user, axText and activeUrl that the object has.
C24_ContextNeverRaises ==
    (pc = "returned" /\ qcall.op \in {"user_context", "to_dict"}) =>
        /\ qret.error = ""
        /\ Unparsable(qcall.payload) => qret.context = {}
        /\ \A p \in qret.context : p[1] \in ProjectedKeys
        /\ (TruthyStr(qcall.payload) /\ ContextLoads(Val(qcall.payload)).ok
              /\ ContextLoads(Val(qcall.payload)).value.kind = "object") =>
             \A n \in 1..Len(ContextKeys) :
                \A v \in {"u", "t", "l", "x"} :
                    <<ContextKeys[n].to, v>> \in qret.context
                        <=> <<ContextKeys[n].from, v>>
                              \in ContextLoads(Val(qcall.payload)).value.pairs

(***************************************************************************)
(* Export: ExportCommand (JSON format, entries not grouped) and the        *)
(* export_transcripts tool.  An encoder is given a list of dicts; what it  *)
(* returns here is the export it encodes together with the list as the     *)
(* call leaves it.                                                         *)
(***************************************************************************)
\* item.pop("additional_context", None); item.pop("user_context", None)
PopContext(item) ==
    [k \in DOMAIN item \ {"additional_context", "user_context"} |-> item[k]]

\* ExportCommand._export_json
export_json(data, include_context) ==
    LET after == IF include_context THEN data
                 ELSE [i \in 1..Len(data) |-> PopContext(data[i])]
    IN  [ export |-> [count |-> Len(data), include_context |-> include_context,
                      data |-> after],
          data |-> after ]

\* The JSON branch of WisprTools._export_transcripts
tool_export_json(data) ==
    [ export |-> [count |-> Len(data), include_context |-> TRUE, data |-> data],
      data |-> data ]

\* [entry.to_dict() for entry in entries]
RECURSIVE ToDicts(_)
ToDicts(entries) ==
    IF entries = <<>> THEN [exc |-> "", value |-> <<>>]
    ELSE IF to_dict(Head(entries)).exc # ""
    THEN [exc |-> to_dict(Head(entries)).exc, value |-> <<>>]
    ELSE IF ToDicts(Tail(entries)).exc # "" THEN ToDicts(Tail(entries))
    ELSE [exc |-> "",
          value |-> <<to_dict(Head(entries)).value>> \o ToDicts(Tail(entries)).value]

NoExport == [count |-> 0, include_context |-> FALSE, data |-> <<>>]

ExportFailed(msg) ==
    [exit |-> 1, error |-> msg, encoded |-> FALSE, input |-> <<>>, after |-> <<>>,
     export |-> NoExport]

\* The outcome of encoding the dicts of some entries.
Encoded(entries, viaTool, include_context) ==
    IF ToDicts(entries).exc # "" THEN ExportFailed(ToDicts(entries).exc)
    ELSE IF ~viaTool /\ ToDicts(entries).value = <<>>
    THEN [ExportFailed("") EXCEPT !.exit = 0]
    ELSE LET data == ToDicts(entries).value
             r == IF viaTool THEN tool_export_json(data)
                  ELSE export_json(data, include_context)
         IN  [exit |-> 0, error |-> "", encoded |-> TRUE, input |-> data,
              after |-> r.data, export |-> r.export]

\* The filters of the get_entries call of both.
ExportFilter(a) ==
    [DefaultFilter EXCEPT
        !.limit = a.limit,
        !.start_date = IF IsNone(a.since) THEN None ELSE Val(a.since),
        !.end_date = IF IsNone(a.until) THEN None ELSE Val(a.until),
        !.app = resolve_app_filter(a.app),
        !.include_archived = a.include_archived]

\* ExportCommand.run with --format json
ExportRun(st, a) ==
    IF ~IsNone(a.since) /\ IsNone(Val(a.since))
    THEN {ExportFailed("Invalid date format")}
    ELSE IF ~IsNone(a.until) /\ IsNone(Val(a.until))
    THEN {ExportFailed("Invalid date format")}
    ELSE {IF r.exc # "" THEN ExportFailed(r.exc)
          ELSE Encoded(r.entries, FALSE, a.include_context)
            : r \in get_entries(st, ExportFilter(a))}

\* WisprTools._export_transcripts with format "json"; the tool has no
\* include_archived argument.
export_transcripts(st, a) ==
    IF ~IsNone(a.since) /\ IsNone(Val(a.since))
    THEN {ExportFailed("Invalid date format")}
    ELSE IF ~IsNone(a.until) /\ IsNone(Val(a.until))
    THEN {ExportFailed("Invalid date format")}
    ELSE {IF r.exc # "" THEN ExportFailed(r.exc)
          ELSE Encoded(r.entries, TRUE, TRUE)
            : r \in get_entries(st, [ExportFilter(a) EXCEPT !.include_archived = FALSE])}

(***************************************************************************)
(* ExportSpec: one run of `export --format json`, or one call of the       *)
(* export_transcripts tool, on some store.                                 *)
(***************************************************************************)
ExportRows(k) ==
    { [MkRow(PosId(k), Some(<<"a">>), None, None, ts, Some("md.obsidian"),
             Some("formatted"), arch, None)
         EXCEPT !.additionalContext = c] :
        ts \in {None, Some(StoreText(<<2, 0, 1>>))},
        arch \in {Some(0), Some(1)},
        c \in {None, Some("{\"user\": \"u\"}"), Some("5")} }

ExportArgs ==
    [ limit : {None, Some(1)},
      since : {None, Some(None)},
      until : {None},
      app : {None, Some("Obsidian")},
      include_archived : BOOLEAN,
      include_context : BOOLEAN ]

ExportInit ==
    /\ store \in StoresOver([k \in 1..MaxRows |-> ExportRows(k)])
    /\ ServerIdle
    /\ pc = "call"
    /\ qcall = NoCall
    /\ qret = NoRet

DoExportCommand ==
    /\ pc = "call"
    /\ \E a \in ExportArgs :
        /\ qcall' = [op |-> "export", args |-> a]
        /\ qret' \in ExportRun(store, a)
    /\ pc' = "returned"
    /\ UNCHANGED <<store, dbExists, line, nread, out>>

DoExportTranscripts ==
    /\ pc = "call"
    /\ \E a \in ExportArgs :
        /\ qcall' = [op |-> "export_transcripts", args |-> a]
        /\ qret' \in export_transcripts(store, a)
    /\ pc' = "returned"
    /\ UNCHANGED <<store, dbExists, line, nread, out>>

ExportNext == DoExportCommand \/ DoExportTranscripts

ExportSpec == ExportInit /\ [][ExportNext]_vars

(***************************************************************************)
(* Properties of the export encoders.                                      *)
(***************************************************************************)
\* C22: an export encoder neither changes nor filters its input: after
\* encoding, every input record has the keys and values it had before, and
\* the export holds one item per input record and a count equal to the
\* number of input records; so for the JSON encoder with context stripping
\* and without.
C22_EncodersLeaveInput ==
    (pc = "returned" /\ qcall.op \in {"export", "export_transcripts"}
        /\ qret.encoded) =>
        /\ qret.after = qret.input
        /\ Len(qret.export.data) = Len(qret.input)
        /\ qret.export.count = Len(qret.input)

(***************************************************************************)
(* The store file under queries.  WisprParser checks that the file exists  *)
(* when it is constructed; get_connection then opens the path with         *)
(* sqlite3.connect for every query.  The RPC server keeps one parser for   *)
(* its lifetime, a CLI command constructs its own.                         *)
(***************************************************************************)
\* The content of a file that sqlite3.connect created: no History table.
NoTable == <<[noTable |-> TRUE]>>
HasTable(st) == ~(Len(st) = 1 /\ "noTable" \in DOMAIN st[1])

\* WisprParser.get_connection and the first statement on the connection:
\* the file afterwards.  sqlite3.connect opens the path read-write and
\* creates the file when there is none.
get_connection(st, exists) ==
    [dbExists |-> TRUE, store |-> IF exists THEN st ELSE NoTable]

\* A query of a parser that was constructed earlier: its outcomes, each with
\* the file it leaves.
ParserEntries(st, exists, f) ==
    IF exists /\ HasTable(st)
    THEN {[exit |-> IF r.exc = "" THEN 0 ELSE 1, error |-> r.exc,
           entries |-> Ids(r.entries), file |-> get_connection(st, exists)]
            : r \in get_entries(st, f)}
    ELSE {[exit |-> 1, error |-> "OperationalError", entries |-> <<>>,
           file |-> get_connection(st, exists)]}

\* A CLI command: WisprParser.__init__, then the query.
CommandEntries(st, exists, f) ==
    IF ~exists
    THEN {[exit |-> 1, error |-> "FileNotFoundError", entries |-> <<>>,
           file |-> [dbExists |-> exists, store |-> st]]}
    ELSE ParserEntries(st, exists, f)

(***************************************************************************)
(* FrameSpec: a sequence of tool calls of a running server and of CLI      *)
(* commands, during which the store file may be removed by its owner.      *)
(***************************************************************************)
FrameRows(k) ==
    { MkRow(PosId(k), Some(<<"a">>), None, None, ts, Some("md.obsidian"),
            Some("formatted"), arch, None) :
        ts \in {None, Some(StoreText(<<1, 0, 1>>)), Some(StoreText(<<2, 0, 1>>))},
        arch \in {None, Some(0), Some(1)} }

FrameFilters ==
    { [DefaultFilter EXCEPT !.limit = l, !.offset = o, !.include_archived = a] :
        l \in {None, Some(1)}, o \in {None, Some(1)}, a \in BOOLEAN }

FrameInit ==
    /\ store \in StoresOver([k \in 1..MaxRows |-> FrameRows(k)])
    /\ ServerIdle
    /\ pc = "call"
    /\ qcall = NoCall
    /\ qret = NoRet

\* The owner of the store removes the file.
Vanish ==
    /\ pc = "call"
    /\ dbExists
    /\ dbExists' = FALSE
    /\ store' = <<>>
    /\ UNCHANGED <<pc, line, nread, out, qcall, qret>>

ToolQuery ==
    /\ pc = "call"
    /\ \E f \in FrameFilters :
        /\ qcall' = [op |-> "tool", filter |-> f]
        /\ \E r \in ParserEntries(store, dbExists, f) :
            /\ qret' = [exit |-> r.exit, error |-> r.error, entries |-> r.entries]
            /\ store' = r.file.store
            /\ dbExists' = r.file.dbExists
    /\ pc' = "returned"
    /\ UNCHANGED <<line, nread, out>>

CommandQuery ==
    /\ pc = "call"
    /\ \E f \in FrameFilters :
        /\ qcall' = [op |-> "command", filter |-> f]
        /\ \E r \in CommandEntries(store, dbExists, f) :
            /\ qret' = [exit |-> r.exit, error |-> r.error, entries |-> r.entries]
            /\ store' = r.file.store
            /\ dbExists' = r.file.dbExists
    /\ pc' = "returned"
    /\ UNCHANGED <<line, nread, out>>

NextOperation ==
    /\ pc = "returned"
    /\ pc' = "call"
    /\ qcall' = NoCall
    /\ qret' = NoRet
    /\ UNCHANGED <<store, dbExists, line, nread, out>>

FrameNext == Vanish \/ ToolQuery \/ CommandQuery \/ NextOperation

FrameSpec == FrameInit /\ [][FrameNext]_vars

\* C23: no CLI command and no RPC request changes the persisted store:
\* after any operation, successful or failed, the rows of the store and the
\* existence of the store file are what they were before it, also when the
\* file has disappeared after startup.
C23_ReadsOnly ==
    [][(pc = "call" /\ pc' = "returned") =>
          (store' = store /\ dbExists' = dbExists)]_vars

\* C25: the quality score of every entry built from a store row lies between
\* 0 and 1 inclusive (0 and 10 in tenths), whatever the store holds in the
\* column that becomes the confidence.
C25_ScoreInRange ==
    (pc = "returned" /\ qcall.op = "quality_score") =>
        (qret.value >= 0 /\ qret.value <= 10)

(***************************************************************************)
(* CollectSpec: one run of `collect` (raw format) with some filter         *)
(* arguments, on stores whose entries differ in text, word count, status   *)
(* and app.                                                                *)
(***************************************************************************)
CollectRows(k) ==
    { [MkRow(PosId(k), Some(t), None, None, Some(StoreText(<<2, 0, 1>>)), Some(app),
             Some(status), Some(0), None)
         EXCEPT !.numWords = w] :
        t \in {<<"a", " ", "b">>, <<" ", " ">>},
        app \in {"md.obsidian", "com.electron.wispr-flow"},
        status \in {"formatted", "dismissed"},
        w \in {None, Some(0), Some(1), Some(ShortWords)} }

CollectArgs ==
    { [CollectDefaults EXCEPT !.since = s, !.until = u, !.min_words = m,
                              !.exclude_short = x, !.exclude_apps = apps] :
        s \in {None, Some(<<1, 0, 0>>)},
        u \in {None, Some(None)},
        m \in {1, 2},
        x \in BOOLEAN,
        apps \in {<<>>, <<<<"F", "L", "O", "W">>>>} }

CollectInit ==
    /\ store \in StoresOver([k \in 1..MaxRows |-> CollectRows(k)])
    /\ ServerIdle
    /\ pc = "call"
    /\ qcall = NoCall
    /\ qret = NoRet

DoCollect ==
    /\ pc = "call"
    /\ \E a \in CollectArgs :
        /\ qcall' = [op |-> "collect", args |-> a]
        /\ qret' \in CollectRun(store, a)
    /\ pc' = "returned"
    /\ UNCHANGED <<store, dbExists, line, nread, out>>

CollectNext == DoCollect

CollectSpec == CollectInit /\ [][CollectNext]_vars

(***************************************************************************)
(* Properties of the collection filters.                                   *)
(***************************************************************************)
\* The word count of an entry is set and at least n.
WordsAtLeast(e, n) == ~IsNone(e.num_words) /\ Val(e.num_words) >= n

\* C26: every entry that collect writes to a daily file satisfies all
\* collection filters: its display text is not blank; its word count is at
\* least the configured minimum (a null or 0 word count does not pass a
\* minimum of 1 or more); its word count is at least 5 when short entries
\* are excluded; its status is none of empty, no_audio, dismissed; its
\* display app name contains none of the excluded names, letter case ignored.
C26_WrittenPassFilters ==
    (pc = "returned" /\ qcall.op = "collect" /\ qret.exit = 0) =>
        \A i \in 1..Len(qret.files) :
            \A k \in 1..Len(qret.files[i].entries) :
                LET e == qret.files[i].entries[k]
                IN  /\ Strip(display_text(e)) # <<>>
                    /\ qcall.args.min_words >= 1 =>
                         WordsAtLeast(e, qcall.args.min_words)
                    /\ qcall.args.exclude_short => WordsAtLeast(e, ShortWords)
                    /\ e.status \notin {Some(s) : s \in NoSpeechStatuses}
                    /\ \A x \in 1..Len(qcall.args.exclude_apps) :
                         ~Contains(Lower(app_name(e)), Lower(qcall.args.exclude_apps[x]))


(***************************************************************************)
(* The since and until guards: WisprTools._list_transcripts and            *)
(* ListCommand.run, each called with the strings as the caller gave them.  *)
(***************************************************************************)
\* The day that the day digit 0 of the store's timestamps stands for.
DayZero == Ordinal(2025, 6, 18)

\* The naive datetime of an instant of the date parser, as the store's
\* timestamps spell days and hours.
AsDatetime(inst) == <<inst[1] - DayZero, inst[2] \div 60, 0>>

\* `DateParser.parse_date(s) if s else None`
ParseIfGiven(s, now) ==
    IF TruthyText(s) THEN parse_date(Val(s), now) ELSE [exc |-> "", value |-> None]

\* What a guarded operation answers without having queried the store.
Refusal(exit, error, named) ==
    [exit |-> exit, error |-> error, named |-> named, queried |-> FALSE,
     entries |-> <<>>]

\* The entries of the query with the parsed dates.
DatedEntries(st, start, end, limit) ==
    {[exit |-> IF r.exc = "" THEN 0 ELSE 1, error |-> r.exc, named |-> <<>>,
      queried |-> TRUE, entries |-> r.entries]
       : r \in get_entries(st,
             [DefaultFilter EXCEPT
                !.limit = limit,
                !.start_date = IF IsNone(start) THEN None ELSE Some(AsDatetime(Val(start))),
                !.end_date = IF IsNone(end) THEN None ELSE Some(AsDatetime(Val(end)))])}

ListLimit == 20    \* _list_transcripts(limit=20), list --limit default

\* WisprTools._list_transcripts under execute_tool, which turns an
\* exception into the answer "Tool execution failed: ...".  The tool
\* returns a dict in every case: exit is 0.
list_transcripts(st, since, until, now) ==
    LET start == ParseIfGiven(since, now)
        end == ParseIfGiven(until, now)
    IN  IF start.exc # "" THEN {Refusal(0, "Tool execution failed:", <<>>)}
        ELSE IF end.exc # "" THEN {Refusal(0, "Tool execution failed:", <<>>)}
        ELSE IF TruthyText(since) /\ IsNone(start.value)
        THEN {Refusal(0, "Invalid date format:", Val(since))}
        ELSE IF TruthyText(until) /\ IsNone(end.value)
        THEN {Refusal(0, "Invalid date format:", Val(until))}
        ELSE {IF r.exit = 0 THEN r
              ELSE [r EXCEPT !.exit = 0, !.error = "Tool execution failed:"]
                : r \in DatedEntries(st, start.value, end.value, Some(ListLimit))}

\* ListCommand.run under main, which prints "Error: ..." for an exception
\* and exits 1.
ListRun(st, since, until, now) ==
    LET start == ParseIfGiven(since, now)
        end == ParseIfGiven(until, now)
    IN  IF start.exc # "" THEN {Refusal(1, "Error:", <<>>)}
        ELSE IF TruthyText(since) /\ IsNone(start.value)
        THEN {Refusal(1, "Invalid date format:", Val(since))}
        ELSE IF end.exc # "" THEN {Refusal(1, "Error:", <<>>)}
        ELSE IF TruthyText(until) /\ IsNone(end.value)
        THEN {Refusal(1, "Invalid date format:", Val(until))}
        ELSE {IF r.exit = 0 THEN r ELSE [r EXCEPT !.error = "Error:"]
                : r \in DatedEntries(st, start.value, end.value, Some(ListLimit))}

(***************************************************************************)
(* GuardSpec: calls of the list tool and runs of the list command with     *)
(* since and until strings.  The server takes the next call after a tool   *)
(* has answered; a run of the command ends the process.                    *)
(***************************************************************************)
GuardRows(k) ==
    { MkRow(PosId(k), Some(<<"a">>), None, None, ts, Some("md.obsidian"),
            Some("formatted"), Some(0), None) :
        ts \in {Some(StoreText(<<1, 0, 1>>)), Some(StoreText(<<4, 0, 1>>)),
                Some(StoreText(<<6, 0, 1>>))} }

\* Not given, empty, unparsable, relative, absolute, and a relative amount
\* that reaches before datetime.min.
GuardDates ==
    { None, Some(<<>>), Some(<<"b", "a", "d">>), Some(<<"1", "h", "1">>),
      Some(<<"2", "d">>), Some(<<"2", "0", "2", "5", "-", "0", "6", "-", "2", "0">>),
      Some(<<"3", "0", "0", "0", "y">>) }

GuardNow == <<DayZero + 5, 540, 0>>

GuardInit ==
    /\ store \in StoresOver([k \in 1..MaxRows |-> GuardRows(k)])
    /\ ServerIdle
    /\ pc = "call"
    /\ qcall = NoCall
    /\ qret = NoRet

CallListTool ==
    /\ pc = "call"
    /\ \E s \in GuardDates, u \in GuardDates :
        /\ qcall' = [op |-> "list_transcripts", via |-> "tool", since |-> s, until |-> u]
        /\ qret' \in list_transcripts(store, s, u, GuardNow)
    /\ pc' = "returned"
    /\ UNCHANGED <<store, dbExists, line, nread, out>>

RunListCommand ==
    /\ pc = "call"
    /\ \E s \in GuardDates, u \in GuardDates :
        /\ qcall' = [op |-> "list", via |-> "command", since |-> s, until |-> u]
        /\ qret' \in ListRun(store, s, u, GuardNow)
    /\ pc' = "returned"
    /\ UNCHANGED <<store, dbExists, line, nread, out>>

\* MCPServer.run reads the next line after the answer to a tools/call.
NextToolCall ==
    /\ pc = "returned"
    /\ qcall.via = "tool"
    /\ pc' = "call"
    /\ UNCHANGED <<store, dbExists, qcall, qret, line, nread, out>>

GuardNext == CallListTool \/ RunListCommand \/ NextToolCall

GuardSpec == GuardInit /\ [][GuardNext]_vars

(***************************************************************************)
(* Properties of the since and until guards.                               *)
(***************************************************************************)
\* The operation refuses with a validation error that names the text t.
RefusesNaming(t) ==
    /\ qret.error = "Invalid date format:"
    /\ qret.named = t
    /\ ~qret.queried
    /\ qret.entries = <<>>
    /\ qcall.via = "command" => qret.exit = 1
    /\ qcall.via = "tool" => qret.exit = 0

\* The date parser returns no date for the text t: it returns None or raises.
CannotParse(t) ==
    parse_date(t, GuardNow).exc # "" \/ IsNone(parse_date(t, GuardNow).value)

\* C27: a non-empty since or until string that the date parser cannot parse
\* makes the tool or command end with a validation error naming that string,
\* without a query of the store and without a partial result; the command
\* exits 1 and the server takes the next request.
C27_BadDateRefused ==
    (pc = "returned" /\ qcall.op \in {"list_transcripts", "list"}) =>
        /\ (TruthyText(qcall.since) /\ CannotParse(Val(qcall.since)))
             => RefusesNaming(Val(qcall.since))
        /\ (~(TruthyText(qcall.since) /\ CannotParse(Val(qcall.since)))
              /\ TruthyText(qcall.until) /\ CannotParse(Val(qcall.until)))
             => RefusesNaming(Val(qcall.until))


(***************************************************************************)
(* NameSpec: a listing filtered by an app name that the system displays    *)
(* for an entry of the store, spelled as displayed, in lower case or in    *)
(* upper case, through the tool or through the list command.               *)
(***************************************************************************)
\* The identifiers of the identifier-to-name table, and one outside it.
NameApps ==
    {"com.tinyspeck.slackmacgap", "md.obsidian", "com.apple.MobileSMS",
     "com.microsoft.VSCode", "com.google.Chrome", "com.electron.wispr-flow",
     "com.openai.chat", "com.apple.Safari", "com.apple.mail", "com.apple.Notes",
     "com.apple.TextEdit", "org.example.app"}

NameRows(k) ==
    { MkRow(PosId(k), Some(<<"a">>), None, None, Some(StoreText(<<k, 0, 1>>)),
            Some(app), Some("formatted"), Some(0), None) :
        app \in NameApps }

\* The listing of the entries of the app that the argument resolves to.
ListByName(st, via, app) ==
    get_entries(st,
        [DefaultFilter EXCEPT
            !.limit = Some(ListLimit),
            !.app = IF IsNone(ResolveVia(via, Some(app))) THEN None
                    ELSE Some(Join(Val(ResolveVia(via, Some(app)))))])

NameInit ==
    /\ store \in StoresOver([k \in 1..MaxRows |-> NameRows(k)])
    /\ ServerIdle
    /\ pc = "call"
    /\ qcall = NoCall
    /\ qret = NoRet

\* The name shown for the i-th entry is given back as the app argument.
ListByDisplayedName ==
    /\ pc = "call"
    /\ \E i \in 1..Len(store), via \in {"tool", "list"} :
         \E spelled \in {app_name(RowToEntry(store[i])),
                         Lower(app_name(RowToEntry(store[i]))),
                         Upper(app_name(RowToEntry(store[i])))} :
            /\ qcall' = [op |-> "list_by_name", via |-> via, app |-> spelled,
                         shown |-> app_name(RowToEntry(store[i]))]
            /\ \E r \in ListByName(store, via, spelled) :
                 qret' = [exit |-> IF r.exc = "" THEN 0 ELSE 1, error |-> r.exc,
                          entries |-> r.entries,
                          value |-> ResolveVia(via, Some(spelled))]
    /\ pc' = "returned"
    /\ UNCHANGED <<store, dbExists, line, nread, out>>

NameNext == ListByDisplayedName

NameSpec == NameInit /\ [][NameNext]_vars

(***************************************************************************)
(* Properties of the two app tables.                                       *)
(***************************************************************************)
DisplayNames == {p[2] : p \in app_mappings}

\* C28: for every display name D of the identifier-to-name table,
\* toIdentifier(D), in any letter case, returns an identifier whose display
\* name is D, so that a listing filtered by a displayed name holds the
\* entries of that app; and every identifier of the name-to-identifier
\* table has an entry in the identifier-to-name table.
C28_TablesConsistent ==
    /\ (pc = "returned" /\ qcall.op = "list_by_name" /\ qcall.shown \in DisplayNames) =>
         /\ ~IsNone(qret.value)
         /\ AppMappingGet(Val(qret.value), Val(qret.value)) = qcall.shown
         /\ qret.exit = 0
         /\ \A k \in 1..Len(qret.entries) : app_name(qret.entries[k]) = qcall.shown
         /\ \A i \in 1..Len(store) :
              app_name(RowToEntry(store[i])) = qcall.shown
                => \E k \in 1..Len(qret.entries) :
                     qret.entries[k].transcript_id = store[i].transcriptEntityId
    /\ \A p \in name_to_bundle : \E q \in app_mappings : q[1] = p[2]


\* The numbers of entries that a listing with the default exclusion of
\* archived entries returns over the scope of a statistics call.
DefaultListingCounts(st, a) ==
    {Len(r.entries) :
        r \in {o \in get_entries(st, [StatsFilter(a) EXCEPT !.include_archived = FALSE]) :
                 o.exc = ""}}

\* C29: in global and in filtered statistics alike, active_entries +
\* archived_entries = total_entries, and active_entries is the number of
\* entries that a default, archived-excluding listing over the same scope
\* returns; an entry whose archived flag is null counts as active.
C29_ActiveCountsAgree ==
    (pc = "returned" /\ qcall.op \in {"get_database_statistics", "stats"}
        /\ qret.exit = 0) =>
        /\ qret.stats.active_entries + qret.stats.archived_entries
             = qret.stats.total_entries
        /\ DefaultListingCounts(store, qcall.args) = {qret.stats.active_entries}


(***************************************************************************)
(* Properties of limit and offset.                                         *)
(***************************************************************************)
\* The part of an ordered result that skips the first `offset` entries and
\* then keeps at most `limit` entries; an absent offset skips none, an
\* absent limit keeps all.
SkipThenKeep(p, limit, offset) ==
    LET k == IF IsNone(offset) THEN 0 ELSE Val(offset)
    IN  SubSeq(p, k + 1, IF IsNone(limit) THEN Len(p) ELSE Min(Len(p), k + Val(limit)))

\* C30: for every store, filter set, limit L >= 0 or absent and offset
\* k >= 0 or absent, get_entries succeeds and returns exactly the slice of
\* the full ordered filtered result that skips the first k entries and then
\* keeps at most L entries: a limit of 0 returns no entries, and an offset
\* without a limit skips k entries.
C30_LimitOffsetSlice ==
    (pc = "returned" /\ qcall.op = "get_entries") =>
        /\ qret.exit = 0
        /\ \E p \in OrderedMatches(store, qcall.args) :
             qret.entries =
                 [k \in 1..Len(SkipThenKeep(p, qcall.args.limit, qcall.args.offset)) |->
                     RowToEntry(store[SkipThenKeep(p, qcall.args.limit,
                                                   qcall.args.offset)[k]])]

====
